---- MODULE Spec2Model ----
(***************************************************************************)
(* Model of MarkdownSyntaxFixer (latest revision of src/utils/syntaxFixer) *)
(* A text is a sequence of UTF-16 code units (JavaScript string elements). *)
(* Positions recorded in addedChars are 0-based, as in the source.         *)
(* The module also holds StreamController (src/utils/streamController),    *)
(* the object that hands a text to the preview one character per timer.    *)
(***************************************************************************)
EXTENDS Integers, Sequences, FiniteSets, TLC

VARIABLES
    markdown,          \* the argument of fixWithDiff
    options,           \* this.options
    pc,                \* the stage fixWithDiff is about to run
    fixedMarkdown,     \* the local fixedMarkdown
    addedChars,        \* the local addedChars
    escapePositions,   \* the local escapePositions
    stageInput,        \* the text handed to the stage that ran last
    stageEscapes,      \* the escapePositions argument of that call
    stageResult,       \* what that stage returned: {fixed, addedChars}
    scan,              \* the locals of the line loop that is running
    stream,            \* the fields of the StreamController object
    pendingTimers,     \* the timeouts set and neither fired nor cleared
    timerCount,        \* the handle setTimeout returned last
    trace              \* the calls made on the controller and by it (onChar)

fixerVars == <<markdown, options, pc, fixedMarkdown, addedChars, escapePositions,
               stageInput, stageEscapes, stageResult, scan>>

streamVars == <<stream, pendingTimers, timerCount, trace>>

vars == <<fixerVars, streamVars>>

(***************************************************************************)
(* Code units the source names in its literals and regular expressions.    *)
(***************************************************************************)
BACKTICK == 96
DOLLAR == 36
LBRACKET == 91
RBRACKET == 93
LPAREN == 40
RPAREN == 41
BANG == 33
PIPE == 124
DASH == 45
BACKSLASH == 92
NEWLINE == 10
SPACE == 32
CJK_FIRST == 19968
CJK_LAST == 40869
FULLWIDTH_FIRST == 65280
FULLWIDTH_LAST == 65519

\* ECMAScript WhiteSpace and LineTerminator code units: String.prototype.trim
\* and the regular expression class \s.
WhiteSpace == {9, 10, 11, 12, 13, 32, 160, 5760, 8232, 8233, 8239, 8287,
               12288, 65279} \cup (8192..8202)

\* Code units the regular expression atom . does not match.
LineTerminator == {10, 13, 8232, 8233}

FENCE == <<BACKTICK, BACKTICK, BACKTICK>>
DOLLARS == <<DOLLAR, DOLLAR>>

(***************************************************************************)
(* JavaScript string primitives, 0-based.                                  *)
(***************************************************************************)
Min(a, b) == IF a < b THEN a ELSE b

\* s.slice(a, b) for non-negative a, b (out-of-range indexes are clamped).
slice(s, a, b) == SubSeq(s, Min(a, Len(s)) + 1, Min(b, Len(s)))

\* s.slice(a)
sliceFrom(s, a) == slice(s, a, Len(s))

\* does pat occur in s at 0-based index i
matchesAt(s, pat, i) ==
    /\ i >= 0
    /\ i + Len(pat) <= Len(s)
    /\ \A k \in 1..Len(pat) : s[i + k] = pat[k]

startsWith(s, pat) == matchesAt(s, pat, 0)
endsWith(s, pat) == matchesAt(s, pat, Len(s) - Len(pat))

\* s.indexOf(pat): the first index of pat, -1 when absent
indexOf(s, pat) ==
    LET hits == {i \in 0..(Len(s) - Len(pat)) : matchesAt(s, pat, i)}
    IN  IF hits = {} THEN -1 ELSE CHOOSE i \in hits : \A j \in hits : i <= j

includes(s, pat) == indexOf(s, pat) # -1

\* s.trim()
trim(s) ==
    LET keep == {i \in 1..Len(s) : s[i] \notin WhiteSpace}
    IN  IF keep = {} THEN <<>>
        ELSE SubSeq(s, CHOOSE i \in keep : \A j \in keep : i <= j,
                       CHOOSE i \in keep : \A j \in keep : i >= j)

\* s.split('\n')
RECURSIVE splitFrom(_, _, _)
splitFrom(s, i, cur) ==
    IF i > Len(s) THEN <<cur>>
    ELSE IF s[i] = NEWLINE THEN <<cur>> \o splitFrom(s, i + 1, <<>>)
    ELSE splitFrom(s, i + 1, Append(cur, s[i]))

split(s) == splitFrom(s, 1, <<>>)

\* lines.join('\n')
RECURSIVE join(_)
join(lines) ==
    IF Len(lines) = 0 THEN <<>>
    ELSE IF Len(lines) = 1 THEN lines[1]
    ELSE lines[1] \o <<NEWLINE>> \o join(Tail(lines))

\* lines.splice(idx, 0, line): insert line so that it gets 0-based index idx
splice(lines, idx, line) ==
    SubSeq(lines, 1, idx) \o <<line>> \o SubSeq(lines, idx + 1, Len(lines))

\* the number of code units of lines[0 .. n-1], each counted with its newline
RECURSIVE lengthOfLines(_, _)
lengthOfLines(lines, n) ==
    IF n <= 0 THEN 0 ELSE lengthOfLines(lines, n - 1) + Len(lines[n]) + 1

\* how many elements of s equal c
count(s, c) == Cardinality({i \in 1..Len(s) : s[i] = c})

Ins(c, p) == [char |-> c, position |-> p]

(***************************************************************************)
(* findEscapePositions / isEscaped                                         *)
(***************************************************************************)
\* the characters of the look-ahead class [`$[\]()!|]
Escapable == {BACKTICK, DOLLAR, LBRACKET, RBRACKET, LPAREN, RPAREN, BANG, PIPE}

\* the number of consecutive backslashes that end just before 0-based index i
RECURSIVE escapeCount(_, _)
escapeCount(s, i) ==
    IF i >= 1 /\ s[i] = BACKSLASH THEN 1 + escapeCount(s, i - 1) ELSE 0

\* null and undefined passed where the signature says string: two values
\* that are no text
Null == <<-1>>
Undefined == <<-2>>
Nullish == {Null, Undefined}

\* String(v), which RegExp.prototype.exec applies to its argument
toStringOf(v) ==
    IF v = Null THEN <<110, 117, 108, 108>>
    ELSE IF v = Undefined THEN <<117, 110, 100, 101, 102, 105, 110, 101, 100>>
    ELSE v

\* the outcome of a call that throws: a property read on null or undefined
TypeError == [thrown |-> "TypeError"]

\* mutant: a backslash counts unless the character just before it is a
\* backslash
findEscapePositionsOneBack(md) ==
    LET s == toStringOf(md)
    IN  {i \in 0..(Len(s) - 2) :
            /\ s[i + 1] = BACKSLASH
            /\ s[i + 2] \in Escapable
            /\ ~(i >= 1 /\ s[i] = BACKSLASH)}

\* The source returns the indexes as an ascending array that is only ever
\* queried with includes(); the model keeps its set of elements.
findEscapePositions(md) ==
    LET s == toStringOf(md)
    IN  {i \in 0..(Len(s) - 2) :
            /\ s[i + 1] = BACKSLASH
            /\ s[i + 2] \in Escapable
            /\ escapeCount(s, i) % 2 # 1}

isEscaped(position, escapes) == position \in escapes

(***************************************************************************)
(* fixCodeBlocksWithDiff                                                   *)
(***************************************************************************)
\* mutant: only the line without any character is blank
isEmptyLineNoTrim(line) == Len(line) = 0

isEmptyLine(line) == Len(line) = 0 \/ trim(line) = <<>>

\* /^```\s*$/.test(trimmed)
isBareFence(trimmed) ==
    /\ startsWith(trimmed, FENCE)
    /\ \A k \in 4..Len(trimmed) : trimmed[k] \in WhiteSpace

isCodeBlockWithLang(line) ==
    /\ Len(line) # 0
    /\ LET trimmed == trim(line)
       IN  startsWith(trimmed, FENCE) /\ Len(trimmed) > 3 /\ ~isBareFence(trimmed)

\* /^[\u4e00-\u9fa5\uff00-\uffef]/.test(line.trim())
\* mutant: the ideograph range reaches one code unit too far
isStartWithChineseWide(line) ==
    /\ Len(line) # 0
    /\ LET trimmedLine == trim(line)
       IN  /\ trimmedLine # <<>>
           /\ \/ trimmedLine[1] \in CJK_FIRST..(CJK_LAST + 1)
              \/ trimmedLine[1] \in FULLWIDTH_FIRST..FULLWIDTH_LAST

isStartWithChinese(line) ==
    /\ Len(line) # 0
    /\ LET trimmedLine == trim(line)
       IN  /\ trimmedLine # <<>>
           /\ \/ trimmedLine[1] \in CJK_FIRST..CJK_LAST
              \/ trimmedLine[1] \in FULLWIDTH_FIRST..FULLWIDTH_LAST

calculateCharOffset(fixedLines, targetLine) ==
    IF targetLine < 0 \/ targetLine >= Len(fixedLines) THEN 0
    ELSE lengthOfLines(fixedLines, targetLine)

\* mutant: the closing fence recorded with the newline before it, four records
fenceCharsWithNewline(charOffset) ==
    <<Ins(<<NEWLINE>>, charOffset - 1), Ins(<<BACKTICK>>, charOffset),
      Ins(<<BACKTICK>>, charOffset + 1), Ins(<<BACKTICK>>, charOffset + 2)>>

\* the three records pushed for one inserted ``` line
fenceChars(charOffset) ==
    <<Ins(<<BACKTICK>>, charOffset), Ins(<<BACKTICK>>, charOffset + 1),
      Ins(<<BACKTICK>>, charOffset + 2)>>

\* fixedLines.splice(insertLineIdx, 0, '```') with its three addedChars
\* records and lineOffset += 1; the caller sets inCodeBlock.
insertFence(st, insertLineIdx, stillIn) ==
    IF insertLineIdx >= 0 /\ insertLineIdx <= Len(st.fixedLines)
    THEN LET spliced == splice(st.fixedLines, insertLineIdx, FENCE)
         IN  [st EXCEPT !.fixedLines = spliced,
                        !.addedChars = @ \o fenceChars(calculateCharOffset(spliced, insertLineIdx)),
                        !.lineOffset = @ + 1,
                        !.inCodeBlock = stillIn,
                        !.emptyLineCount = 0]
    ELSE st

\* One iteration of the scan loop for the loop variable st.i; the result has
\* i advanced.  blockStartLine is only written by the source, never read,
\* and is left out.
\* lines 256-258 for the line the loop is at: the index, in the text of
\* fixedLines, of the first ``` of the line, and the test made with it
fenceMarkerPos(st) ==
    LET currentLineIdx == st.i + st.lineOffset
        backtickPos == indexOf(st.fixedLines[currentLineIdx + 1], FENCE)
    IN  calculateCharOffset(st.fixedLines, currentLineIdx)
          + (IF backtickPos >= 0 THEN backtickPos ELSE 0)

isEscapedBacktickAt(st, escapes) ==
    /\ indexOf(st.fixedLines[st.i + st.lineOffset + 1], FENCE) # -1
    /\ isEscaped(fenceMarkerPos(st), escapes)

fenceStep(st, escapes) ==
    LET currentLineIdx == st.i + st.lineOffset
        line == st.fixedLines[currentLineIdx + 1]
        trimmedLine == trim(line)
        backtickPos == indexOf(line, FENCE)
        charPos == calculateCharOffset(st.fixedLines, currentLineIdx)
                     + (IF backtickPos >= 0 THEN backtickPos ELSE 0)
        isEscapedBacktick == backtickPos # -1 /\ isEscaped(charPos, escapes)
        next(s) == [s EXCEPT !.i = st.i + 1]
    IN  IF ~st.inCodeBlock /\ startsWith(trimmedLine, FENCE) /\ ~isEscapedBacktick
        THEN next([st EXCEPT !.inCodeBlock = TRUE, !.emptyLineCount = 0])
        ELSE IF ~st.inCodeBlock THEN next(st)
        ELSE IF isStartWithChinese(line)
        THEN next(insertFence(st, currentLineIdx, FALSE))
        ELSE IF isCodeBlockWithLang(line) /\ ~isEscapedBacktick
        THEN next(insertFence(st, currentLineIdx, TRUE))
        ELSE LET afterEmpty ==
                    IF isEmptyLine(line)
                    THEN IF st.emptyLineCount + 1 = 2
                         THEN insertFence(st, currentLineIdx, FALSE)
                         ELSE [st EXCEPT !.emptyLineCount = @ + 1]
                    ELSE [st EXCEPT !.emptyLineCount = 0]
             IN  IF trimmedLine = FENCE /\ ~isEscapedBacktick
                 THEN next([afterEmpty EXCEPT !.inCodeBlock = FALSE, !.emptyLineCount = 0])
                 ELSE next(afterEmpty)

\* the loop is entered for the line at st.i: both tests of lines 246-248
fenceLoopRuns(st) ==
    st.i < Len(st.fixedLines) /\ st.i + st.lineOffset < Len(st.fixedLines)

RECURSIVE fenceLoop(_, _)
fenceLoop(st, escapes) ==
    IF fenceLoopRuns(st) THEN fenceLoop(fenceStep(st, escapes), escapes) ELSE st

\* the locals before the loop (lines 200-203)
fenceStart(md) ==
    [i |-> 0, fixedLines |-> split(md), addedChars |-> <<>>,
     inCodeBlock |-> FALSE, emptyLineCount |-> 0, lineOffset |-> 0]

\* the state of the line scan when the loop is left
fenceScan(md, escapes) == fenceLoop(fenceStart(md), escapes)

\* after the loop (lines 351-365): a fence still open is closed at the end
fenceResult(st) ==
    IF st.inCodeBlock
    THEN LET pushed == Append(st.fixedLines, FENCE)
             charOffset == calculateCharOffset(pushed, Len(st.fixedLines))
         IN  [fixed |-> join(pushed),
              addedChars |-> st.addedChars \o fenceChars(charOffset)]
    ELSE [fixed |-> join(st.fixedLines), addedChars |-> st.addedChars]

\* the guard of lines 195-198: !markdown holds for "", null and undefined
\* inCodeBlock once the loop has passed the first n lines of a text without
\* escapes: a line starting with ``` opens, a line that is ``` closes
RECURSIVE inCodeBlockAfter(_, _)
inCodeBlockAfter(lines, n) ==
    IF n = 0 THEN FALSE
    ELSE IF ~inCodeBlockAfter(lines, n - 1) THEN startsWith(trim(lines[n]), FENCE)
    ELSE trim(lines[n]) # FENCE

fenceGuard(md, opts) == ~opts.codeBlocks.enabled \/ md = <<>> \/ md \in Nullish

fixCodeBlocksWithDiff(md, escapes, opts) ==
    IF fenceGuard(md, opts)
    THEN [fixed |-> IF md \in Nullish THEN <<>> ELSE md, addedChars |-> <<>>]
    ELSE fenceResult(fenceScan(md, escapes))

(***************************************************************************)
(* fixInlineCodeWithDiff                                                   *)
(***************************************************************************)
\* the line toggles the stage's own inside-fence flag
togglesCodeBlock(trimmedLine) ==
    \/ trimmedLine = FENCE
    \/ /\ startsWith(trimmedLine, FENCE)
       /\ ~includes(sliceFrom(trimmedLine, 3), <<BACKTICK>>)

\* the stage's inside-fence flag once the callback has run on the first n
\* lines
RECURSIVE isInCodeBlockAfter(_, _)
isInCodeBlockAfter(lines, n) ==
    IF n = 0 THEN FALSE
    ELSE IF togglesCodeBlock(trim(lines[n])) THEN ~isInCodeBlockAfter(lines, n - 1)
    ELSE isInCodeBlockAfter(lines, n - 1)

\* indexes (within the line) of the backticks that are not escaped
unescapedBackticks(line, lineStartPos, escapes) ==
    {charIdx \in 0..(Len(line) - 1) :
        /\ line[charIdx + 1] = BACKTICK
        /\ ~isEscaped(lineStartPos + charIdx, escapes)}

\* mutant: the closing backtick goes before the first space that follows the
\* stray backtick (the end of the line when there is none)
inlineCodeStepAtNextSpace(st, lineIdx, escapes) ==
    LET line == st.lines[lineIdx + 1]
        lineStartPos == st.globalCharOffset
        ticks == unescapedBackticks(line, lineStartPos, escapes)
        skip == [st EXCEPT !.globalCharOffset = @ + Len(line) + 1]
        lastBacktick == CHOOSE k \in ticks : TRUE
        spaces == {k \in (lastBacktick + 1)..(Len(line) - 1) : line[k + 1] = SPACE}
        endPos == IF spaces = {} THEN Len(line)
                  ELSE CHOOSE k \in spaces : \A j \in spaces : k <= j
    IN  IF togglesCodeBlock(trim(line))
        THEN [skip EXCEPT !.isInCodeBlock = ~st.isInCodeBlock]
        ELSE IF st.isInCodeBlock THEN skip
        ELSE IF Cardinality(ticks) = 1
        THEN [st EXCEPT !.lines[lineIdx + 1] =
                            slice(line, 0, endPos) \o <<BACKTICK>> \o sliceFrom(line, endPos),
                        !.addedChars = Append(@, Ins(<<BACKTICK>>, lineStartPos + endPos)),
                        !.globalCharOffset = @ + Len(line) + 2]
        ELSE skip

\* One call of the forEach callback.  st.lines is the array being rewritten,
\* st.globalCharOffset and st.isInCodeBlock the closure variables.
inlineCodeStep(st, lineIdx, escapes) ==
    LET line == st.lines[lineIdx + 1]
        lineStartPos == st.globalCharOffset
        lineEndPos == lineStartPos + Len(line)
        ticks == unescapedBackticks(line, lineStartPos, escapes)
        isInCode == Cardinality(ticks) % 2 = 1
        unescapedCount == Cardinality(ticks)
        skip == [st EXCEPT !.globalCharOffset = @ + Len(line) + 1]
    IN  IF togglesCodeBlock(trim(line))
        THEN [skip EXCEPT !.isInCodeBlock = ~st.isInCodeBlock]
        ELSE IF st.isInCodeBlock THEN skip
        ELSE IF isInCode /\ unescapedCount = 1
        THEN [st EXCEPT !.lines[lineIdx + 1] = Append(line, BACKTICK),
                        !.addedChars = Append(@, Ins(<<BACKTICK>>, lineEndPos)),
                        !.globalCharOffset = @ + Len(line) + 2]
        ELSE skip

RECURSIVE inlineCodeLoop(_, _, _)
inlineCodeLoop(st, lineIdx, escapes) ==
    IF lineIdx >= Len(st.lines) THEN st
    ELSE inlineCodeLoop(inlineCodeStep(st, lineIdx, escapes), lineIdx + 1, escapes)

fixInlineCodeWithDiff(md, escapes, opts) ==
    IF ~opts.inlineCode.enabled THEN [fixed |-> md, addedChars |-> <<>>]
    ELSE IF md \in Nullish THEN TypeError      \* markdown.split
    ELSE LET st == inlineCodeLoop([lines |-> split(md), addedChars |-> <<>>,
                                   globalCharOffset |-> 0, isInCodeBlock |-> FALSE],
                                  0, escapes)
         IN  [fixed |-> join(st.lines), addedChars |-> st.addedChars]

(***************************************************************************)
(* fixMathFormulasWithDiff                                                 *)
(***************************************************************************)
\* the offset just after the newline that ends line endLineIdx
calculateCharPosition(endLineIdx, linesArr) == lengthOfLines(linesArr, endLineIdx + 1)

isUnescapedDollarLine(lineIdx, linesArr, escapes) ==
    LET line == linesArr[lineIdx + 1]
        dollarPos == indexOf(line, DOLLARS)
    IN  /\ trim(line) = DOLLARS
        /\ dollarPos # -1
        /\ ~isEscaped(calculateCharPosition(lineIdx - 1, linesArr) + dollarPos, escapes)

blockInfo(startLine, contentEnd) ==
    [startLine |-> startLine, contentStart |-> startLine + 1, contentEnd |-> contentEnd]

\* first step: collect the unclosed block formulas, scanning from line i
RECURSIVE findUnclosedBlockMaths(_, _, _, _, _)
findUnclosedBlockMaths(lines, i, inUnclosedBlock, currentBlockStart, escapes) ==
    IF i >= Len(lines) THEN <<>>
    ELSE IF isUnescapedDollarLine(i, lines, escapes)
    THEN IF ~inUnclosedBlock
         THEN findUnclosedBlockMaths(lines, i + 1, TRUE, i, escapes)
         ELSE findUnclosedBlockMaths(lines, i + 1, FALSE, -1, escapes)
    ELSE IF inUnclosedBlock /\ i = Len(lines) - 1
    THEN <<blockInfo(currentBlockStart, i)>>
           \o findUnclosedBlockMaths(lines, i + 1, inUnclosedBlock, currentBlockStart, escapes)
    ELSE IF inUnclosedBlock /\ trim(lines[i + 1]) = <<>>
    THEN <<blockInfo(currentBlockStart, i - 1)>>
           \o findUnclosedBlockMaths(lines, i + 1, FALSE, -1, escapes)
    ELSE findUnclosedBlockMaths(lines, i + 1, inUnclosedBlock, currentBlockStart, escapes)

\* second step, one forEach callback: close one unclosed block
closeBlockMath(st, block) ==
    LET actualContentEnd == block.contentEnd + st.lineOffset
        targetLine == actualContentEnd + 1
    IN  IF targetLine < Len(st.lines) /\ trim(st.lines[targetLine + 1]) = <<>>
        THEN [st EXCEPT !.lines[targetLine + 1] = DOLLARS,
                        !.addedChars = Append(@,
                            Ins(DOLLARS, calculateCharPosition(targetLine - 1, st.lines)))]
        ELSE LET insertCharPos == calculateCharPosition(actualContentEnd, st.lines)
             IN  [st EXCEPT !.lines = splice(st.lines, targetLine, DOLLARS),
                            !.addedChars = @ \o <<Ins(<<NEWLINE>>, insertCharPos - 1),
                                                  Ins(DOLLARS, insertCharPos)>>,
                            !.lineOffset = @ + 1]

RECURSIVE closeBlockMaths(_, _)
closeBlockMaths(st, blocks) ==
    IF blocks = <<>> THEN st
    ELSE closeBlockMaths(closeBlockMath(st, Head(blocks)), Tail(blocks))

\* mutant: the pattern without its (?<!\\) look-behind, the escape test left
\* to isEscaped alone
inlineMatchesNoLookbehind(line, currentLineOffset, escapes) ==
    {currentLineOffset + k : k \in
        {k \in 0..(Len(line) - 1) :
            /\ line[k + 1] = DOLLAR
            /\ ~(k + 2 <= Len(line) /\ line[k + 2] = DOLLAR)
            /\ ~isEscaped(currentLineOffset + k, escapes)}}

\* the matches of /(?<!\\)\$(?!\$)/g in the line that are not escaped, as
\* positions in the whole text
inlineMatches(line, currentLineOffset, escapes) ==
    {currentLineOffset + k : k \in
        {k \in 0..(Len(line) - 1) :
            /\ line[k + 1] = DOLLAR
            /\ ~(k >= 1 /\ line[k] = BACKSLASH)
            /\ ~(k + 2 <= Len(line) /\ line[k + 2] = DOLLAR)
            /\ ~isEscaped(currentLineOffset + k, escapes)}}

\* mutant: the $ is recorded one past the end of the line
inlineMathStepOffByOne(st, lineIdx, escapes) ==
    LET line == st.lines[lineIdx + 1]
        currentLineOffset == st.charOffset
        trimmed == trim(line)
    IN  IF startsWith(trimmed, DOLLARS) \/ endsWith(trimmed, DOLLARS)
        THEN [st EXCEPT !.charOffset = @ + Len(line) + 1]
        ELSE IF Cardinality(inlineMatches(line, currentLineOffset, escapes)) % 2 # 0
        THEN LET newLines == [st.newLines EXCEPT ![lineIdx + 1] = Append(line, DOLLAR)]
             IN  [st EXCEPT !.newLines = newLines,
                            !.fixed = join(newLines),
                            !.addedChars = Append(@, Ins(<<DOLLAR>>, currentLineOffset + Len(line) + 1)),
                            !.charOffset = @ + Len(line) + 2]
        ELSE [st EXCEPT !.charOffset = @ + Len(line) + 1]

\* the inline pass, one loop iteration.  st.fixed is fixedMarkdown, which the
\* source reassigns from newLines only when a line gets its $.
inlineMathStep(st, lineIdx, escapes) ==
    LET line == st.lines[lineIdx + 1]
        currentLineOffset == st.charOffset
        trimmed == trim(line)
    IN  IF startsWith(trimmed, DOLLARS) \/ endsWith(trimmed, DOLLARS)
        THEN [st EXCEPT !.charOffset = @ + Len(line) + 1]
        ELSE IF Cardinality(inlineMatches(line, currentLineOffset, escapes)) % 2 # 0
        THEN LET newLines == [st.newLines EXCEPT ![lineIdx + 1] = Append(line, DOLLAR)]
             IN  [st EXCEPT !.newLines = newLines,
                            !.fixed = join(newLines),
                            !.addedChars = Append(@, Ins(<<DOLLAR>>, currentLineOffset + Len(line))),
                            !.charOffset = @ + Len(line) + 2]
        ELSE [st EXCEPT !.charOffset = @ + Len(line) + 1]

RECURSIVE inlineMathLoop(_, _, _)
inlineMathLoop(st, lineIdx, escapes) ==
    IF lineIdx >= Len(st.lines) THEN st
    ELSE inlineMathLoop(inlineMathStep(st, lineIdx, escapes), lineIdx + 1, escapes)

\* the text and the records after the block pass
fixBlockMath(md, escapes) ==
    LET lines == split(md)
        unclosedBlockMaths == findUnclosedBlockMaths(lines, 0, FALSE, -1, escapes)
    IN  IF Len(unclosedBlockMaths) > 0
        THEN LET st == closeBlockMaths([lines |-> lines, addedChars |-> <<>>,
                                        lineOffset |-> 0], unclosedBlockMaths)
             IN  [fixed |-> join(st.lines), addedChars |-> st.addedChars]
        ELSE [fixed |-> md, addedChars |-> <<>>]

fixMathFormulasWithDiff(md, escapes, opts) ==
    IF ~opts.mathFormulas.enabled THEN [fixed |-> md, addedChars |-> <<>>]
    ELSE IF md \in Nullish THEN TypeError      \* fixedMarkdown.split
    ELSE LET block == fixBlockMath(md, escapes)
             lines == split(block.fixed)
             st == inlineMathLoop([lines |-> lines, newLines |-> lines,
                                   fixed |-> block.fixed,
                                   addedChars |-> block.addedChars,
                                   charOffset |-> 0], 0, escapes)
         IN  [fixed |-> st.fixed, addedChars |-> st.addedChars]

(***************************************************************************)
(* findUnclosedBrackets / fixLinksWithDiff / fixImagesWithDiff             *)
(***************************************************************************)
linkPrefix == "(?<!!)"
imagePrefix == "!"

\* the index of the first code unit at or after i that \s does not match
\* (Len(s) when there is none)
skipWhiteSpace(s, i) ==
    LET rest == {k \in i..(Len(s) - 1) : s[k + 1] \notin WhiteSpace}
    IN  IF rest = {} THEN Len(s) ELSE CHOOSE k \in rest : \A j \in rest : k <= j

\* \[.+?\]\s*\(  with [ at index b: the index just after the ( for the
\* shortest .+? that lets the rest match, -1 when the pattern fails at b
bracketParen(s, b) ==
    LET closers == {k \in (b + 2)..(Len(s) - 1) :
                       /\ s[k + 1] = RBRACKET
                       /\ \A j \in (b + 1)..(k - 1) : s[j + 1] \notin LineTerminator
                       /\ skipWhiteSpace(s, k + 1) < Len(s)
                       /\ s[skipWhiteSpace(s, k + 1) + 1] = LPAREN}
    IN  IF b < 0 \/ b >= Len(s) \/ s[b + 1] # LBRACKET \/ closers = {} THEN -1
        ELSE skipWhiteSpace(s, (CHOOSE k \in closers : \A j \in closers : k <= j) + 1) + 1

\* [\s\S]*?(?=\n|$)(?!\)) from index i: the lazy run stops at the first
\* newline or at the end of the text, where the look-aheads both hold
urlEnd(s, i) ==
    LET stops == {k \in i..Len(s) : k = Len(s) \/ s[k + 1] = NEWLINE}
    IN  CHOOSE k \in stops : \A j \in stops : k <= j

\* the index of the [ of a match that starts at p, -1 when the prefix fails
bracketAfterPrefix(s, p, prefixRegex) ==
    IF prefixRegex = imagePrefix
    THEN IF s[p + 1] = BANG THEN p + 1 ELSE -1
    ELSE IF p >= 1 /\ s[p] = BANG THEN -1 ELSE p

\* the exec loop: the leftmost match at or after lastIndex, then on from its end
RECURSIVE execUnclosed(_, _, _)
execUnclosed(s, prefixRegex, lastIndex) ==
    LET starts == {p \in lastIndex..(Len(s) - 1) :
                      bracketParen(s, bracketAfterPrefix(s, p, prefixRegex)) # -1}
    IN  IF starts = {} THEN <<>>
        ELSE LET p == CHOOSE q \in starts : \A j \in starts : q <= j
                 e == urlEnd(s, bracketParen(s, bracketAfterPrefix(s, p, prefixRegex)))
             IN  <<[start |-> p, end |-> e, type |-> "unclosed"]>>
                   \o execUnclosed(s, prefixRegex, e)

findUnclosedBrackets(md, prefixRegex) == execUnclosed(toStringOf(md), prefixRegex, 0)

reverse(seq) == [k \in 1..Len(seq) |-> seq[Len(seq) + 1 - k]]

\* matches.sort((a, b) => b.end - a.end): stable, descending in end
RECURSIVE sortByEndDescending(_)
sortByEndDescending(seq) ==
    IF Len(seq) <= 1 THEN seq
    ELSE LET rest == sortByEndDescending(Tail(seq))
             h == Head(seq)
             n == Cardinality({k \in 1..Len(rest) : rest[k].end > h.end})
         IN  \* rest is sorted, so the records that go before h are a prefix
             SubSeq(rest, 1, n) \o <<h>> \o SubSeq(rest, n + 1, Len(rest))

\* mutant: the ) is recorded at the index after it
closeBracketOffByOne(st, matchItem) ==
    LET actualEnd == matchItem.end + st.offset
    IN  IF actualEnd > Len(st.fixed) THEN st
        ELSE [fixed |-> slice(st.fixed, 0, actualEnd) \o <<RPAREN>>
                          \o sliceFrom(st.fixed, actualEnd),
              addedChars |-> Append(st.addedChars, Ins(<<RPAREN>>, actualEnd + 1)),
              offset |-> st.offset + 1]

\* the forEach callback: one ) for one match
closeBracket(st, matchItem) ==
    LET actualEnd == matchItem.end + st.offset
    IN  IF actualEnd > Len(st.fixed) THEN st
        ELSE [fixed |-> slice(st.fixed, 0, actualEnd) \o <<RPAREN>>
                          \o sliceFrom(st.fixed, actualEnd),
              addedChars |-> Append(st.addedChars, Ins(<<RPAREN>>, actualEnd)),
              offset |-> st.offset + 1]

\* the forEach over the matches, taken by descending end
RECURSIVE closeBrackets(_, _)
closeBrackets(st, matches) ==
    IF matches = <<>> THEN st
    ELSE closeBrackets(closeBracket(st, Head(matches)), Tail(matches))

fixBrackets(md, prefixRegex) ==
    LET matches == sortByEndDescending(findUnclosedBrackets(md, prefixRegex))
        st == closeBrackets([fixed |-> md, addedChars |-> <<>>, offset |-> 0], matches)
    IN  [fixed |-> st.fixed, addedChars |-> reverse(st.addedChars)]

fixLinksWithDiff(md, opts) ==
    IF ~opts.links.enabled THEN [fixed |-> md, addedChars |-> <<>>]
    ELSE fixBrackets(md, linkPrefix)

fixImagesWithDiff(md, opts) ==
    IF ~opts.images.enabled THEN [fixed |-> md, addedChars |-> <<>>]
    ELSE fixBrackets(md, imagePrefix)

(***************************************************************************)
(* fixTablesWithDiff                                                       *)
(***************************************************************************)
NoTable == [open |-> FALSE]

isSeparatorLine(line) ==
    LET trimmed == trim(line)
    IN  /\ includes(trimmed, <<PIPE>>)
        /\ includes(trimmed, <<DASH>>)
        /\ count(trimmed, PIPE) >= 1

isTableDataLine(line) ==
    LET trimmed == trim(line)
    IN  /\ ~(Len(trimmed) < 3 \/ ~includes(trimmed, <<PIPE>>))
        /\ ~isSeparatorLine(trimmed)
        /\ trimmed # <<>>

\* s.replace(/\s+/g, ' '): every maximal run of white space becomes one space
RECURSIVE collapseWhiteSpace(_)
collapseWhiteSpace(s) ==
    IF s = <<>> THEN <<>>
    ELSE IF s[1] \in WhiteSpace
    THEN <<SPACE>> \o collapseWhiteSpace(sliceFrom(s, skipWhiteSpace(s, 0)))
    ELSE <<s[1]>> \o collapseWhiteSpace(Tail(s))

\* separatorColumns.join(' | ') for n columns of ' --- '
RECURSIVE joinSeparatorColumns(_)
joinSeparatorColumns(n) ==
    IF n <= 0 THEN <<>>
    ELSE IF n = 1 THEN <<SPACE, DASH, DASH, DASH, SPACE>>
    ELSE <<SPACE, DASH, DASH, DASH, SPACE, SPACE, PIPE, SPACE>> \o joinSeparatorColumns(n - 1)

\* mutant: the white space of the joined columns is not collapsed
generateSeparatorLineUncollapsed(headerLine) ==
    LET trimmedHeader == trim(headerLine)
        headerColumns == count(slice(trimmedHeader, 1, Len(trimmedHeader) - 1), PIPE) + 1
    IN  trim(<<PIPE, SPACE>> \o joinSeparatorColumns(headerColumns) \o <<SPACE, PIPE>>)

generateSeparatorLine(headerLine) ==
    LET trimmedHeader == trim(headerLine)
        \* trimmedHeader.slice(1, -1).split('|') has one element more than the
        \* slice has pipes
        headerColumns == count(slice(trimmedHeader, 1, Len(trimmedHeader) - 1), PIPE) + 1
    IN  trim(collapseWhiteSpace(<<PIPE, SPACE>> \o joinSeparatorColumns(headerColumns)
                                  \o <<SPACE, PIPE>>))

getLineStartPosition(lines, lineIndex, offset) == lengthOfLines(lines, lineIndex) + offset

\* the records of addedContent, one per code unit, from lineStartPos on
contentChars(addedContent, lineStartPos) ==
    [idx \in 1..Len(addedContent) |-> Ins(<<addedContent[idx]>>, lineStartPos + idx - 1)]

\* mutant: the header row counts as a data row of its table
classifyTableLineHeaderIsData(currentTable, line, i) ==
    IF ~currentTable.open /\ isTableDataLine(line)
    THEN [open |-> TRUE, startLineIndex |-> i, headerLine |-> line,
          separatorLineIndex |-> -1, hasDataLine |-> TRUE]
    ELSE IF currentTable.open /\ currentTable.separatorLineIndex = -1 /\ isSeparatorLine(line)
    THEN IF count(currentTable.headerLine, PIPE) = count(line, PIPE)
         THEN [currentTable EXCEPT !.separatorLineIndex = i]
         ELSE currentTable
    ELSE IF currentTable.open /\ isTableDataLine(line) /\ i # currentTable.startLineIndex
    THEN [currentTable EXCEPT !.hasDataLine = TRUE]
    ELSE currentTable

\* steps 1 to 3 of the loop body: the table record after looking at line i
classifyTableLine(currentTable, line, i) ==
    IF ~currentTable.open /\ isTableDataLine(line)
    THEN [open |-> TRUE, startLineIndex |-> i, headerLine |-> line,
          separatorLineIndex |-> -1, hasDataLine |-> FALSE]
    ELSE IF currentTable.open /\ currentTable.separatorLineIndex = -1 /\ isSeparatorLine(line)
    THEN IF count(currentTable.headerLine, PIPE) = count(line, PIPE)
         THEN [currentTable EXCEPT !.separatorLineIndex = i]
         ELSE currentTable
    ELSE IF currentTable.open /\ isTableDataLine(line) /\ i # currentTable.startLineIndex
    THEN [currentTable EXCEPT !.hasDataLine = TRUE]
    ELSE currentTable

\* mutant: the text returned ends with a line terminator
tableResultTrailingNewline(st) ==
    [fixed |-> join(st.lines) \o <<NEWLINE>>, addedChars |-> st.addedChars]

\* mutant: outside a table the iteration ends without the loop's i++
tableStepStuckOutside(st) ==
    LET i == st.i
        line == st.lines[i + 1]
        table == classifyTableLine(st.currentTable, line, i)
        isCurrentLineTableRelated == isTableDataLine(line) \/ isSeparatorLine(line)
        isEndOfDocument == i = Len(st.lines) - 1
        isEndOfTable == ~isCurrentLineTableRelated \/ isEndOfDocument
    IN  IF ~table.open THEN [st EXCEPT !.currentTable = table]
        ELSE IF ~isEndOfTable THEN [st EXCEPT !.i = i + 1, !.currentTable = table]
        ELSE IF table.separatorLineIndex = -1 /\ table.hasDataLine
        THEN LET separatorLine == generateSeparatorLine(table.headerLine)
                 insertIndex == table.startLineIndex + 1
                 lineStartPos == getLineStartPosition(st.lines, insertIndex, st.offset)
                 addedContent == <<NEWLINE>> \o separatorLine
             IN  [i |-> i + 2,
                  lines |-> splice(st.lines, insertIndex, separatorLine),
                  addedChars |-> st.addedChars \o contentChars(addedContent, lineStartPos),
                  offset |-> st.offset + Len(addedContent),
                  currentTable |-> NoTable]
        ELSE [st EXCEPT !.i = i + 1, !.currentTable = NoTable]

\* One iteration of the loop for st.i (step 4 included); the result has i
\* advanced by the loop's i++ and, after an insertion, by the extra i++.
\* separatorLineIndex = -1 stands for null.
tableStep(st) ==
    LET i == st.i
        line == st.lines[i + 1]
        table == classifyTableLine(st.currentTable, line, i)
        isCurrentLineTableRelated == isTableDataLine(line) \/ isSeparatorLine(line)
        isEndOfDocument == i = Len(st.lines) - 1
        isEndOfTable == ~isCurrentLineTableRelated \/ isEndOfDocument
    IN  IF ~table.open THEN [st EXCEPT !.i = i + 1, !.currentTable = table]
        ELSE IF ~isEndOfTable THEN [st EXCEPT !.i = i + 1, !.currentTable = table]
        ELSE IF table.separatorLineIndex = -1 /\ table.hasDataLine
        THEN LET separatorLine == generateSeparatorLine(table.headerLine)
                 insertIndex == table.startLineIndex + 1
                 lineStartPos == getLineStartPosition(st.lines, insertIndex, st.offset)
                 addedContent == <<NEWLINE>> \o separatorLine
             IN  [i |-> i + 2,
                  lines |-> splice(st.lines, insertIndex, separatorLine),
                  addedChars |-> st.addedChars \o contentChars(addedContent, lineStartPos),
                  offset |-> st.offset + Len(addedContent),
                  currentTable |-> NoTable]
        ELSE [st EXCEPT !.i = i + 1, !.currentTable = NoTable]

\* the loop test of line 783
tableLoopRuns(st) == st.i < Len(st.lines)

RECURSIVE tableLoop(_)
tableLoop(st) == IF tableLoopRuns(st) THEN tableLoop(tableStep(st)) ELSE st

\* addedChars.sort((a, b) => a.position - b.position): stable, ascending
RECURSIVE sortByPosition(_)
sortByPosition(seq) ==
    IF Len(seq) <= 1 THEN seq
    ELSE LET rest == sortByPosition(Tail(seq))
             h == Head(seq)
             n == Cardinality({k \in 1..Len(rest) : rest[k].position < h.position})
         IN  SubSeq(rest, 1, n) \o <<h>> \o SubSeq(rest, n + 1, Len(rest))

\* the locals before the loop (lines 728-745)
tableStart(md) ==
    [i |-> 0, lines |-> split(md), addedChars |-> <<>>,
     offset |-> 0, currentTable |-> NoTable]

\* after the loop (lines 858-862)
tableResult(st) ==
    [fixed |-> join(st.lines), addedChars |-> sortByPosition(st.addedChars)]

fixTablesWithDiff(md, opts) ==
    IF ~opts.tables.enabled THEN [fixed |-> md, addedChars |-> <<>>]
    ELSE IF md \in Nullish THEN TypeError      \* markdown.split
    ELSE tableResult(tableLoop(tableStart(md)))

(***************************************************************************)
(* fixWithDiff / fix                                                       *)
(***************************************************************************)
DEFAULT_SYNTAX_FIX_OPTIONS ==
    [enabled |-> TRUE,
     strategy |-> "autoFix",
     codeBlocks |-> [enabled |-> TRUE, preserveLanguage |-> TRUE],
     inlineCode |-> [enabled |-> TRUE, ignoreInlineMultiLine |-> TRUE],
     mathFormulas |-> [enabled |-> TRUE, distinguishBlockInline |-> TRUE],
     tables |-> [enabled |-> TRUE, autoAddSeparator |-> TRUE],
     links |-> [enabled |-> TRUE, autoFillEmptyUrl |-> FALSE],
     images |-> [enabled |-> TRUE, inheritLinkRules |-> TRUE]]

\* the constructor: the options given are spread over the defaults, one
\* whole option family at a time
MarkdownSyntaxFixer(given) ==
    [k \in DOMAIN DEFAULT_SYNTAX_FIX_OPTIONS |->
        IF k \in DOMAIN given THEN given[k] ELSE DEFAULT_SYNTAX_FIX_OPTIONS[k]]

NoResult == [fixed |-> <<>>, addedChars |-> <<>>]

\* no line loop is running
NoScan == [running |-> FALSE]

\* the call of a stage that is not handed escapePositions
NotPassed == {-1}

\* the whole of fixWithDiff as one function of the text and the options
fixWithDiff(md, opts) ==
    IF ~opts.enabled THEN [original |-> md, fixed |-> md, addedChars |-> <<>>]
    ELSE LET escapes == findEscapePositions(md)
             r1 == IF opts.codeBlocks.enabled
                   THEN fixCodeBlocksWithDiff(md, escapes, opts)
                   ELSE [fixed |-> md, addedChars |-> <<>>]
             r2 == IF opts.inlineCode.enabled
                   THEN fixInlineCodeWithDiff(r1.fixed, escapes, opts)
                   ELSE [fixed |-> r1.fixed, addedChars |-> <<>>]
             r3 == IF opts.mathFormulas.enabled
                   THEN fixMathFormulasWithDiff(r2.fixed, escapes, opts)
                   ELSE [fixed |-> r2.fixed, addedChars |-> <<>>]
             r4 == IF opts.links.enabled
                   THEN fixLinksWithDiff(r3.fixed, opts)
                   ELSE [fixed |-> r3.fixed, addedChars |-> <<>>]
             r5 == IF opts.images.enabled
                   THEN fixImagesWithDiff(r4.fixed, opts)
                   ELSE [fixed |-> r4.fixed, addedChars |-> <<>>]
             r6 == IF opts.tables.enabled
                   THEN fixTablesWithDiff(r5.fixed, opts)
                   ELSE [fixed |-> r5.fixed, addedChars |-> <<>>]
         IN  [original |-> md, fixed |-> r6.fixed,
              addedChars |-> r1.addedChars \o r2.addedChars \o r3.addedChars
                               \o r4.addedChars \o r5.addedChars \o r6.addedChars]

fix(md, opts) == fixWithDiff(md, opts).fixed

(***************************************************************************)
(* Input texts.  A text is built from at most MaxLines lines; the lines    *)
(* hold every construct the stages look for, open and closed.              *)
(***************************************************************************)
MaxLines == 3

Lines ==
    { <<>>,                                      \* empty line
      <<97>>,                                    \* a
      FENCE,                                     \* ```
      FENCE \o <<97>>,                           \* ```a
      <<BACKTICK, 97>>,                          \* `a
      <<BACKSLASH, BACKTICK>>,                   \* \`
      <<DOLLAR, 97>>,                            \* $a
      DOLLARS,                                   \* $$
      <<LBRACKET, 97, RBRACKET, LPAREN, 98>>,    \* [a](b
      <<LBRACKET, 97, RBRACKET, LPAREN, 98, RPAREN>>,   \* [a](b)
      <<BANG, LBRACKET, 97, RBRACKET, LPAREN, 98>>,     \* ![a](b
      <<PIPE, 97, PIPE>>,                        \* |a|
      <<PIPE, DASH, PIPE>>,                      \* |-|
      <<20013>> }                                \* a CJK ideograph

LineSeqs == UNION {[1..n -> Lines] : n \in 1..MaxLines}

Texts == {join(ls) : ls \in LineSeqs}

\* the six inputs of the specification's scenarios
Scenario1 == <<96, 96, 96, 106, 115, 10, 99, 111, 110, 115, 111, 108, 101, 46,
               108, 111, 103, 40, 49, 41>>      \* ```js / console.log(1)
Scenario2 == <<85, 115, 101, 32, 96, 99, 111, 100, 101, 32, 104, 101, 114, 101>>
                                                 \* Use `code here
Scenario3 == <<69, 110, 101, 114, 103, 121, 32, 105, 115, 32, 36, 69, 61, 109,
               99, 94, 50>>                      \* Energy is $E=mc^2
Scenario4 == <<83, 101, 101, 32, 91, 100, 111, 99, 115, 93, 40, 104, 116, 116,
               112, 115, 58, 47, 47, 101, 120, 97, 109, 112, 108, 101, 46, 99,
               111, 109>>                        \* See [docs](https://example.com
Scenario5 == <<124, 32, 65, 32, 124, 32, 66, 32, 124, 10, 124, 32, 49, 32, 124,
               32, 50, 32, 124>>                 \* | A | B | / | 1 | 2 |
Scenario6 == <<82, 101, 97, 100, 32, 91, 116, 104, 101, 32, 115, 112, 101, 99,
               93>>                              \* Read [the spec]

Scenarios == {Scenario1, Scenario2, Scenario3, Scenario4, Scenario5, Scenario6}

\* an escaped dollar sign followed by a letter: \$x
EscapedDollar == <<BACKSLASH, DOLLAR, 120>>

\* option records other than the default: the global switch off, one stage
\* off, and the empty-url placeholder on
StageNames == {"codeBlocks", "inlineCode", "mathFormulas", "tables", "links", "images"}

OtherOptions ==
    {[DEFAULT_SYNTAX_FIX_OPTIONS EXCEPT !.enabled = FALSE],
     [DEFAULT_SYNTAX_FIX_OPTIONS EXCEPT !.links.autoFillEmptyUrl = TRUE]}
    \cup {[DEFAULT_SYNTAX_FIX_OPTIONS EXCEPT ![s].enabled = FALSE] : s \in StageNames}

(***************************************************************************)
(* StreamController.  A world w is the object (w.stream) together with the *)
(* timer table of the host (w.pending, w.count) and the record of calls    *)
(* (w.trace).  currentInterval is a fraction num/den of milliseconds:      *)
(* damping 0.80 is 4/5, so no rounding enters the comparison with maxSpeed.*)
(***************************************************************************)
NoTimer == 0

NoBlock == [null |-> TRUE]

DEFAULT_STREAM_OPTIONS ==
    [initialSpeed |-> 45, maxSpeed |-> 5,
     damping |-> [num |-> 4, den |-> 5], acceleration |-> [num |-> 24, den |-> 25]]

\* the object after the constructor, called without options
StreamController ==
    [options |-> DEFAULT_STREAM_OPTIONS,
     currentInterval |-> [num |-> DEFAULT_STREAM_OPTIONS.initialSpeed, den |-> 1],
     isEnd |-> FALSE,
     dataBlockQueue |-> <<>>,
     currentDataBlock |-> NoBlock,
     currentCharIndex |-> 0,
     timer |-> NoTimer,
     totalLength |-> 0,
     renderedLength |-> 0,
     inTailBlock |-> FALSE]

\* Math.max(n, x * r) for an integer n and fractions x, r
maxOfScaled(n, x, r) ==
    LET y == [num |-> x.num * r.num, den |-> x.den * r.den]
    IN  IF y.num >= n * y.den THEN y ELSE [num |-> n, den |-> 1]

\* !this.currentDataBlock || this.currentCharIndex >= content.length
blockRendered(c) ==
    \/ c.currentDataBlock = NoBlock
    \/ c.currentCharIndex >= Len(c.currentDataBlock.content)

RECURSIVE processDataBlock(_), renderNextChar(_)

processDataBlock(w) ==
    LET c == w.stream
    IN  IF blockRendered(c)
        THEN IF Len(c.dataBlockQueue) = 0
             THEN [w EXCEPT !.stream.timer = NoTimer]
             ELSE LET next == Head(c.dataBlockQueue)
                  IN  renderNextChar(
                        [w EXCEPT !.stream.currentDataBlock = next,
                                  !.stream.dataBlockQueue = Tail(c.dataBlockQueue),
                                  !.stream.currentCharIndex = 0,
                                  !.stream.inTailBlock = next.isTail,
                                  !.stream.currentInterval =
                                      IF next.isTail
                                      THEN [num |-> c.options.maxSpeed, den |-> 1]
                                      ELSE @])
        ELSE renderNextChar(w)

\* onChar is recorded in the trace; setTimeout puts a new handle into the
\* timer table and returns it
renderNextChar(w) ==
    LET c == w.stream
    IN  IF blockRendered(c) THEN processDataBlock(w)
        ELSE LET char == c.currentDataBlock.content[c.currentCharIndex + 1]
                 handle == w.count + 1
             IN  [stream |->
                      [c EXCEPT !.currentCharIndex = @ + 1,
                                !.renderedLength = @ + 1,
                                !.currentInterval =
                                    IF ~c.isEnd /\ ~c.inTailBlock
                                    THEN maxOfScaled(c.options.maxSpeed, @, c.options.damping)
                                    ELSE @,
                                !.timer = handle],
                  pending |-> w.pending \cup {handle},
                  count |-> handle,
                  trace |-> Append(w.trace, [op |-> "onChar", char |-> char])]

\* mutant: add starts the rendering whether or not a timer is pending
addAlwaysStarts(w, dataBlock) ==
    processDataBlock(
        [w EXCEPT !.stream.dataBlockQueue = Append(@, [content |-> dataBlock, isTail |-> FALSE]),
                  !.stream.totalLength = @ + Len(dataBlock)])

add(w, dataBlock) ==
    LET pushed == [w EXCEPT !.stream.dataBlockQueue =
                                Append(@, [content |-> dataBlock, isTail |-> FALSE]),
                            !.stream.totalLength = @ + Len(dataBlock)]
    IN  IF pushed.stream.timer = NoTimer THEN processDataBlock(pushed) ELSE pushed

addTailBlock(w, dataBlock) ==
    LET pushed == [w EXCEPT !.stream.dataBlockQueue =
                                Append(@, [content |-> dataBlock, isTail |-> TRUE]),
                            !.stream.totalLength = @ + Len(dataBlock)]
    IN  IF pushed.stream.timer = NoTimer THEN processDataBlock(pushed) ELSE pushed

markAsEnd(w) ==
    [w EXCEPT !.stream.isEnd = TRUE, !.stream.currentInterval = [num |-> 5, den |-> 1]]

\* mutant: stop keeps the block that was being rendered
stopKeepsCurrentBlock(w) ==
    [w EXCEPT !.pending = IF w.stream.timer # NoTimer THEN @ \ {w.stream.timer} ELSE @,
              !.stream.timer = NoTimer,
              !.stream.dataBlockQueue = <<>>,
              !.stream.currentCharIndex = 0,
              !.stream.totalLength = 0,
              !.stream.renderedLength = 0,
              !.stream.inTailBlock = FALSE]

\* clearTimeout takes the handle out of the timer table
stop(w) ==
    [w EXCEPT !.pending = IF w.stream.timer # NoTimer THEN @ \ {w.stream.timer} ELSE @,
              !.stream.timer = NoTimer,
              !.stream.dataBlockQueue = <<>>,
              !.stream.currentDataBlock = NoBlock,
              !.stream.currentCharIndex = 0,
              !.stream.totalLength = 0,
              !.stream.renderedLength = 0,
              !.stream.inTailBlock = FALSE]

\* the controller as constructed, no timeout set, no call made
Constructed ==
    /\ stream = StreamController
    /\ pendingTimers = {}
    /\ timerCount = 0
    /\ trace = <<>>

(***************************************************************************)
(* The run of fixWithDiff, one step per stage.                             *)
(***************************************************************************)
\* the locals of fixWithDiff before its first statement
Entered ==
    /\ Constructed
    /\ pc = "start"
    /\ fixedMarkdown = <<>>
    /\ addedChars = <<>>
    /\ escapePositions = {}
    /\ stageInput = <<>>
    /\ stageEscapes = NotPassed
    /\ stageResult = NoResult
    /\ scan = NoScan

Init ==
    /\ \/ markdown \in Texts \cup Scenarios \cup {EscapedDollar}
          /\ options = DEFAULT_SYNTAX_FIX_OPTIONS
       \/ markdown \in Scenarios /\ options \in OtherOptions
    /\ Entered

\* lines 97-109: the global switch, then the escape positions
Begin ==
    /\ pc = "start"
    /\ fixedMarkdown' = markdown
    /\ addedChars' = <<>>
    /\ IF ~options.enabled
       THEN pc' = "done" /\ UNCHANGED escapePositions
       ELSE pc' = "codeBlocks" /\ escapePositions' = findEscapePositions(markdown)
    /\ UNCHANGED <<streamVars, markdown, options, stageInput, stageEscapes, stageResult, scan>>

\* what fixWithDiff does with the value a stage returned: it replaces
\* fixedMarkdown and its records are pushed onto addedChars; an exception
\* of the stage leaves fixWithDiff
Returns(input, escapes, result, to) ==
    /\ stageInput' = input
    /\ stageEscapes' = escapes
    /\ stageResult' = result
    /\ IF result = TypeError
       THEN pc' = "error" /\ UNCHANGED <<fixedMarkdown, addedChars>>
       ELSE /\ pc' = to
            /\ fixedMarkdown' = result.fixed
            /\ addedChars' = addedChars \o result.addedChars

\* mutant: a stage that is switched off hands on the original text
StageDisabledResets(at, enabled, escapes, result, to) ==
    /\ pc = at
    /\ IF enabled
       THEN Returns(fixedMarkdown, escapes, result, to)
       ELSE /\ pc' = to
            /\ fixedMarkdown' = markdown
            /\ UNCHANGED <<stageInput, stageEscapes, stageResult, addedChars>>
    /\ UNCHANGED <<streamVars, markdown, options, escapePositions, scan>>

\* one stage of lines 112-146: skipped when its flag is off, else called
\* with fixedMarkdown and, for the first three stages, escapePositions
Stage(at, enabled, escapes, result, to) ==
    /\ pc = at
    /\ IF enabled
       THEN Returns(fixedMarkdown, escapes, result, to)
       ELSE /\ pc' = to
            /\ UNCHANGED <<stageInput, stageEscapes, stageResult, fixedMarkdown,
                           addedChars>>
    /\ UNCHANGED <<streamVars, markdown, options, escapePositions, scan>>

FixCodeBlocks ==
    Stage("codeBlocks", options.codeBlocks.enabled, escapePositions,
          fixCodeBlocksWithDiff(fixedMarkdown, escapePositions, options), "inlineCode")

FixInlineCode ==
    Stage("inlineCode", options.inlineCode.enabled, escapePositions,
          fixInlineCodeWithDiff(fixedMarkdown, escapePositions, options), "mathFormulas")

FixMathFormulas ==
    Stage("mathFormulas", options.mathFormulas.enabled, escapePositions,
          fixMathFormulasWithDiff(fixedMarkdown, escapePositions, options), "links")

FixLinks ==
    Stage("links", options.links.enabled, NotPassed,
          fixLinksWithDiff(fixedMarkdown, options), "images")

FixImages ==
    Stage("images", options.images.enabled, NotPassed,
          fixImagesWithDiff(fixedMarkdown, options), "tables")

FixTables ==
    Stage("tables", options.tables.enabled, NotPassed,
          fixTablesWithDiff(fixedMarkdown, options), "done")

Next ==
    \/ Begin
    \/ FixCodeBlocks
    \/ FixInlineCode
    \/ FixMathFormulas
    \/ FixLinks
    \/ FixImages
    \/ FixTables

Spec == Init /\ [][Next]_vars

\* the FixDiff returned once the run is over
Returned == pc = "done"

\* the object of lines 98-102 and 148-152
FixDiff == [original |-> markdown, fixed |-> fixedMarkdown, addedChars |-> addedChars]

\* the run was left by an exception
Thrown == pc = "error"

(***************************************************************************)
(* Runs under every setting of the global switch and of the six stage      *)
(* switches, on the empty text, on null and undefined, and on texts with   *)
(* one unclosed construct of each stage.                                   *)
(***************************************************************************)
MaxOptionLines == 2

OptionLines ==
    { FENCE,
      <<BACKTICK, 97>>,
      <<DOLLAR, 97>>,
      <<LBRACKET, 97, RBRACKET, LPAREN, 98>>,
      <<BANG, LBRACKET, 97, RBRACKET, LPAREN, 98>>,
      <<PIPE, 97, PIPE>> }

OptionTexts ==
    {join(ls) : ls \in UNION {[1..n -> OptionLines] : n \in 1..MaxOptionLines}}

\* the options handed to the constructor: any of the switches turned off
GivenOptions ==
    {[k \in S |-> IF k = "enabled" THEN FALSE
                  ELSE [DEFAULT_SYNTAX_FIX_OPTIONS[k] EXCEPT !.enabled = FALSE]] :
        S \in SUBSET ({"enabled"} \cup StageNames)}

OptionsInit ==
    /\ markdown \in OptionTexts \cup {<<>>} \cup Nullish
    /\ options \in {MarkdownSyntaxFixer(given) : given \in GivenOptions}
    /\ Entered

OptionsSpec == OptionsInit /\ [][Next]_vars

(***************************************************************************)
(* Runs on texts with runs of backslashes before delimiters.               *)
(***************************************************************************)
MaxEscapeLen == 4

EscapeUnits == {BACKSLASH, BACKTICK, PIPE, 97}

EscapeTexts == UNION {[1..n -> EscapeUnits] : n \in 1..MaxEscapeLen}

EscapesInit ==
    /\ markdown \in EscapeTexts
    /\ options = DEFAULT_SYNTAX_FIX_OPTIONS
    /\ Entered

EscapesSpec == EscapesInit /\ [][Next]_vars

(***************************************************************************)
(* Runs on texts of fence lines, blank lines, prose and lines that hold a  *)
(* backslash after a fence marker.                                         *)
(***************************************************************************)
MaxFenceLines == 3

FenceLines ==
    { <<>>,
      <<97>>,
      FENCE,
      FENCE \o <<97>>,
      <<20013>>,
      FENCE \o <<97, BACKSLASH, BACKTICK>> }      \* ```a\`

FenceTexts ==
    {join(ls) : ls \in UNION {[1..n -> FenceLines] : n \in 1..MaxFenceLines}}

FencesInit ==
    /\ markdown \in FenceTexts
    /\ options = DEFAULT_SYNTAX_FIX_OPTIONS
    /\ Entered

FencesSpec == FencesInit /\ [][Next]_vars

(***************************************************************************)
(* Runs on documents long enough to hold two tables.                       *)
(***************************************************************************)
MaxTableLines == 5

TableLines == { <<97>>, <<PIPE, 97, PIPE>>, <<PIPE, DASH, PIPE>> }

TableTexts ==
    {join(ls) : ls \in UNION {[1..n -> TableLines] : n \in 1..MaxTableLines}}

TablesInit ==
    /\ markdown \in TableTexts
    /\ options = DEFAULT_SYNTAX_FIX_OPTIONS
    /\ Entered

TablesSpec == TablesInit /\ [][Next]_vars

(***************************************************************************)
(* The same run with the two loops that splice into the array they walk    *)
(* (fence stage, table stage) taken one iteration at a time.  The other    *)
(* stages walk an array or a match list whose length they do not change.   *)
(***************************************************************************)
MaxStepLines == 3

StepLines ==
    { <<>>, FENCE, FENCE \o <<97>>, <<20013>>, <<PIPE, 97, PIPE>>,
      <<PIPE, DASH, PIPE>> }

StepTexts == {join(ls) : ls \in UNION {[1..n -> StepLines] : n \in 1..MaxStepLines}}

\* a text in which both loops insert a line: ``` / CJK / |a| / |a|
SpliceTwice == join(<<FENCE, <<20013>>, <<PIPE, 97, PIPE>>, <<PIPE, 97, PIPE>>>>)

StepInit ==
    /\ \/ markdown \in StepTexts \cup {SpliceTwice}
          /\ options = DEFAULT_SYNTAX_FIX_OPTIONS
       \/ markdown = SpliceTwice /\ options \in OtherOptions
    /\ Entered

\* lines 112-116 and 195-203: the call of the fence stage up to its loop
FenceEnter ==
    /\ pc = "codeBlocks"
    /\ IF ~options.codeBlocks.enabled
       THEN /\ pc' = "inlineCode"
            /\ UNCHANGED <<stageInput, stageEscapes, stageResult, fixedMarkdown,
                           addedChars, scan>>
       ELSE IF fenceGuard(fixedMarkdown, options)
       THEN /\ Returns(fixedMarkdown, escapePositions,
                       fixCodeBlocksWithDiff(fixedMarkdown, escapePositions, options),
                       "inlineCode")
            /\ UNCHANGED scan
       ELSE /\ pc' = "codeBlocks.loop"
            /\ scan' = fenceStart(fixedMarkdown)
            /\ stageInput' = fixedMarkdown
            /\ stageEscapes' = escapePositions
            /\ UNCHANGED <<stageResult, fixedMarkdown, addedChars>>
    /\ UNCHANGED <<streamVars, markdown, options, escapePositions>>

\* lines 246-349: one iteration of the fence loop
FenceIterate ==
    /\ pc = "codeBlocks.loop"
    /\ fenceLoopRuns(scan)
    /\ scan' = fenceStep(scan, stageEscapes)
    /\ UNCHANGED <<streamVars, markdown, options, pc, fixedMarkdown, addedChars, escapePositions,
                   stageInput, stageEscapes, stageResult>>

\* lines 351-365 and 114-115: the loop is left and the stage returns
FenceLeave ==
    /\ pc = "codeBlocks.loop"
    /\ ~fenceLoopRuns(scan)
    /\ Returns(stageInput, stageEscapes, fenceResult(scan), "inlineCode")
    /\ scan' = NoScan
    /\ UNCHANGED <<streamVars, markdown, options, escapePositions>>

\* lines 142-146 and 724-745: the call of the table stage up to its loop
TableEnter ==
    /\ pc = "tables"
    /\ IF ~options.tables.enabled
       THEN /\ pc' = "done"
            /\ UNCHANGED <<stageInput, stageEscapes, stageResult, fixedMarkdown,
                           addedChars, scan>>
       ELSE /\ pc' = "tables.loop"
            /\ scan' = tableStart(fixedMarkdown)
            /\ stageInput' = fixedMarkdown
            /\ stageEscapes' = NotPassed
            /\ UNCHANGED <<stageResult, fixedMarkdown, addedChars>>
    /\ UNCHANGED <<streamVars, markdown, options, escapePositions>>

\* lines 783-856: one iteration of the table loop
TableIterate ==
    /\ pc = "tables.loop"
    /\ tableLoopRuns(scan)
    /\ scan' = tableStep(scan)
    /\ UNCHANGED <<streamVars, markdown, options, pc, fixedMarkdown, addedChars, escapePositions,
                   stageInput, stageEscapes, stageResult>>

\* lines 858-862 and 144-145: the loop is left and the stage returns
TableLeave ==
    /\ pc = "tables.loop"
    /\ ~tableLoopRuns(scan)
    /\ Returns(stageInput, stageEscapes, tableResult(scan), "done")
    /\ scan' = NoScan
    /\ UNCHANGED <<streamVars, markdown, options, escapePositions>>

StepNext ==
    \/ Begin
    \/ FenceEnter
    \/ FenceIterate
    \/ FenceLeave
    \/ FixInlineCode
    \/ FixMathFormulas
    \/ FixLinks
    \/ FixImages
    \/ TableEnter
    \/ TableIterate
    \/ TableLeave

StepSpec == StepInit /\ [][StepNext]_vars

(***************************************************************************)
(* The fence loop, one iteration at a time, on texts of blank lines, fence *)
(* lines, prose, lines that start with a CJK or full-width character, and  *)
(* lines that hold a backslash after a fence marker.                       *)
(***************************************************************************)
MaxRuleLines == 3

RuleLines ==
    { <<>>,
      <<SPACE>>,
      <<97>>,
      FENCE,
      FENCE \o <<97>>,
      FENCE \o <<97, BACKSLASH, BACKTICK>>,     \* ```a\`
      <<SPACE, CJK_FIRST>>,
      <<FULLWIDTH_LAST>>,
      <<CJK_LAST + 1>> }

RuleTexts ==
    {join(ls) : ls \in UNION {[1..n -> RuleLines] : n \in 1..MaxRuleLines}}

FenceRulesInit ==
    /\ markdown \in RuleTexts
    /\ options = DEFAULT_SYNTAX_FIX_OPTIONS
    /\ Entered

FenceRulesSpec == FenceRulesInit /\ [][StepNext]_vars

(***************************************************************************)
(* Runs on texts of fences and stray backticks: the fence lines ```, ```a  *)
(* and ```a` (an opener with a further backtick), the line `a and plain    *)
(* lines.  No text holds a backslash, so no marker is escaped.             *)
(***************************************************************************)
MaxInlineLines == 3

InlineLines ==
    { <<>>, <<97>>, <<BACKTICK, 97>>, FENCE, FENCE \o <<97>>,
      FENCE \o <<97, BACKTICK>> }

InlineTexts ==
    {join(ls) : ls \in UNION {[1..n -> InlineLines] : n \in 1..MaxInlineLines}}

InlineInit ==
    /\ markdown \in InlineTexts
    /\ options = DEFAULT_SYNTAX_FIX_OPTIONS
    /\ Entered

InlineSpec == InlineInit /\ [][Next]_vars

(***************************************************************************)
(* Runs on texts of dollars: the block delimiter $$, the lines $a and $a$b *)
(* with one and two single dollars, the line a$$b with one pair inside,    *)
(* the empty line, the line of one space and plain lines.  No text holds a *)
(* backslash.                                                              *)
(***************************************************************************)
MaxMathLines == 3

MathLines ==
    { <<>>, <<SPACE>>, <<97>>, DOLLARS, <<DOLLAR, 97>>, <<DOLLAR, 97, DOLLAR, 98>>,
      <<97>> \o DOLLARS \o <<98>> }

MathTexts ==
    {join(ls) : ls \in UNION {[1..n -> MathLines] : n \in 1..MaxMathLines}}

MathInit ==
    /\ markdown \in MathTexts
    /\ options = DEFAULT_SYNTAX_FIX_OPTIONS
    /\ Entered

MathSpec == MathInit /\ [][Next]_vars

(***************************************************************************)
(* Runs on texts of links and images: the open link [a](b, the closed link *)
(* [a](b), the open image ![a](b, and the two lines [a]![b](c and          *)
(* ![a][b](c, where a bracket pair without URL stands next to an open      *)
(* construct.                                                              *)
(***************************************************************************)
MaxLinkLines == 3

LinkLines ==
    { <<>>, <<97>>,
      <<LBRACKET, 97, RBRACKET, LPAREN, 98>>,
      <<LBRACKET, 97, RBRACKET, LPAREN, 98, RPAREN>>,
      <<BANG, LBRACKET, 97, RBRACKET, LPAREN, 98>>,
      <<LBRACKET, 97, RBRACKET, BANG, LBRACKET, 98, RBRACKET, LPAREN, 99>>,
      <<BANG, LBRACKET, 97, RBRACKET, LBRACKET, 98, RBRACKET, LPAREN, 99>> }

LinkTexts ==
    {join(ls) : ls \in UNION {[1..n -> LinkLines] : n \in 1..MaxLinkLines}}

LinkInit ==
    /\ markdown \in LinkTexts
    /\ options = DEFAULT_SYNTAX_FIX_OPTIONS
    /\ Entered

LinkSpec == LinkInit /\ [][Next]_vars

(***************************************************************************)
(* Runs on texts of table rows: the rows |a| and |a|b| with their pipes,   *)
(* the row a|b without outer pipes, the separator |-|, the cell row        *)
(* | a-b | c | with a dash in a cell, blank and plain lines.               *)
(***************************************************************************)
MaxRowLines == 3

RowLines ==
    { <<>>, <<97>>,
      <<PIPE, 97, PIPE>>,
      <<PIPE, 97, PIPE, 98, PIPE>>,
      <<97, PIPE, 98>>,
      <<PIPE, DASH, PIPE>>,
      <<PIPE, SPACE, 97, DASH, 98, SPACE, PIPE, SPACE, 99, SPACE, PIPE>> }

RowTexts ==
    {join(ls) : ls \in UNION {[1..n -> RowLines] : n \in 1..MaxRowLines}}

RowsInit ==
    /\ markdown \in RowTexts
    /\ options = DEFAULT_SYNTAX_FIX_OPTIONS
    /\ Entered

RowsSpec == RowsInit /\ [][Next]_vars

(***************************************************************************)
(* The controller under its callers: up to MaxBlocks calls of add and      *)
(* addTailBlock with an empty block, a block of one character and a block  *)
(* of two, markAsEnd, up to MaxStops calls of stop, and the timeouts       *)
(* firing one at a time.  A call runs to its end before the next step: the *)
(* host is single-threaded.                                                *)
(***************************************************************************)
MaxBlocks == 3

MaxStops == 1

StreamBlocks == { <<>>, <<97>>, <<98, 99>> }

World == [stream |-> stream, pending |-> pendingTimers, count |-> timerCount, trace |-> trace]

\* the world after a call
Becomes(w) ==
    /\ stream' = w.stream
    /\ pendingTimers' = w.pending
    /\ timerCount' = w.count
    /\ trace' = w.trace
    /\ UNCHANGED fixerVars

calls(op) == Cardinality({k \in 1..Len(trace) : trace[k].op = op})

Called(event) == [World EXCEPT !.trace = Append(@, event)]

Add ==
    /\ calls("add") < MaxBlocks
    /\ \E dataBlock \in StreamBlocks :
          Becomes(add(Called([op |-> "add", content |-> dataBlock]), dataBlock))

AddTailBlock ==
    /\ calls("add") < MaxBlocks
    /\ \E dataBlock \in StreamBlocks :
          Becomes(addTailBlock(Called([op |-> "add", content |-> dataBlock]), dataBlock))

MarkAsEnd == Becomes(markAsEnd(World))

Stop ==
    /\ calls("stop") < MaxStops
    /\ Becomes(stop(Called([op |-> "stop"])))

\* a pending timeout fires: the host drops it from its table and calls
\* () => this.renderNextChar()
TimerFires ==
    \E handle \in pendingTimers :
        Becomes(renderNextChar([World EXCEPT !.pending = @ \ {handle}]))

StreamInit ==
    /\ markdown = <<>>
    /\ options = DEFAULT_SYNTAX_FIX_OPTIONS
    /\ Entered

StreamNext == Add \/ AddTailBlock \/ MarkAsEnd \/ TimerFires

\* stop is never called
StreamSpec == StreamInit /\ [][StreamNext]_vars

\* stop is never called and every timeout set fires in the end
FairStreamSpec == StreamSpec /\ WF_vars(TimerFires)

StopNext == Add \/ AddTailBlock \/ MarkAsEnd \/ TimerFires \/ Stop

StopSpec == StreamInit /\ [][StopNext]_vars

(***************************************************************************)
(* Properties                                                              *)
(***************************************************************************)
DefaultRun == options = DEFAULT_SYNTAX_FIX_OPTIONS

\* original with the insertions applied one after the other: each char
\* string goes in at its position (indexes past the end are clamped, as
\* String.prototype.slice does)
RECURSIVE applyInsertions(_, _)
applyInsertions(text, insertions) ==
    IF insertions = <<>> THEN text
    ELSE LET h == Head(insertions)
         IN  applyInsertions(slice(text, 0, h.position) \o h.char \o sliceFrom(text, h.position),
                             Tail(insertions))

\* the insertions taken in ascending position order and applied
replay(text, insertions) == applyInsertions(text, sortByPosition(insertions))

\* C1: Idempotence.  With the default options the text fixWithDiff returns
\* is a fixed point of fix: fixing it again returns it unchanged and records
\* no insertion.
C1_Idempotence ==
    (Returned /\ DefaultRun) =>
        /\ fix(fixedMarkdown, options) = fixedMarkdown
        /\ fixWithDiff(fixedMarkdown, options).addedChars = <<>>

\* Well-formed texts, on the safe side: no backslash; fence lines pair up,
\* an opener ``` or ```lang and a closer ```; outside the fences every line
\* has an even number of backticks and of dollars, every ]( is followed by a
\* ) on its line and the four bracket characters occur equally often, the
\* $$ lines pair up, and a row with a pipe that follows a table's first row
\* is a separator row (only | - and white space, a pipe, a dash) with the
\* pipe count of that first row.
isFenceLine(line) == startsWith(trim(line), FENCE)

fenceLinesBefore(lines, k) == Cardinality({j \in 1..(k - 1) : isFenceLine(lines[j])})

outsideFence(lines, k) == ~isFenceLine(lines[k]) /\ fenceLinesBefore(lines, k) % 2 = 0

strictSeparatorRow(line) ==
    /\ \A i \in 1..Len(line) : line[i] \in {PIPE, DASH} \cup WhiteSpace
    /\ count(line, PIPE) >= 1
    /\ count(line, DASH) >= 1

closedLinksOnly(line) ==
    /\ count(line, LBRACKET) = count(line, RBRACKET)
    /\ count(line, RBRACKET) = count(line, LPAREN)
    /\ count(line, LPAREN) = count(line, RPAREN)
    /\ \A i \in 2..Len(line) :
          (line[i] = LPAREN /\ line[i - 1] = RBRACKET)
              => \E j \in (i + 1)..Len(line) : line[j] = RPAREN

WellFormed(text) ==
    LET lines == split(text)
        n == Len(lines)
        out(k) == outsideFence(lines, k)
        hasPipe(k) == count(lines[k], PIPE) >= 1
        startsTable(k) == out(k) /\ hasPipe(k) /\ (k = 1 \/ ~out(k - 1) \/ ~hasPipe(k - 1))
    IN  /\ count(text, BACKSLASH) = 0
        /\ fenceLinesBefore(lines, n + 1) % 2 = 0
        /\ \A k \in 1..n :
              isFenceLine(lines[k]) =>
                  IF fenceLinesBefore(lines, k) % 2 = 1
                  THEN trim(lines[k]) = FENCE
                  ELSE count(lines[k], BACKTICK) = 3
        /\ \A k \in 1..n :
              out(k) => /\ count(lines[k], BACKTICK) % 2 = 0
                        /\ count(lines[k], DOLLAR) % 2 = 0
                        /\ closedLinksOnly(lines[k])
        /\ Cardinality({k \in 1..n : out(k) /\ trim(lines[k]) = DOLLARS}) % 2 = 0
        /\ \A k \in 1..(n - 1) :
              (startsTable(k) /\ out(k + 1) /\ hasPipe(k + 1))
                  => /\ strictSeparatorRow(lines[k + 1])
                     /\ count(lines[k + 1], PIPE) = count(lines[k], PIPE)

\* C2: No-op on well-formed input.  For a well-formed text and the default
\* options fixWithDiff returns the text unchanged and addedChars empty.
C2_NoOpOnWellFormed ==
    (Returned /\ DefaultRun /\ WellFormed(markdown)) =>
        /\ fixedMarkdown = markdown
        /\ addedChars = <<>>

\* C3: Diff replay.  The records a stage returns, applied in ascending
\* position order to the text the stage was given, reproduce the text it
\* returns; and the records of the whole run, applied to original, reproduce
\* fixed.
C3_DiffReplay ==
    /\ replay(stageInput, stageResult.addedChars) = stageResult.fixed
    /\ Returned => replay(markdown, addedChars) = fixedMarkdown

\* every delimiter of the fence, inline code, math, link and image stages
\* in the text has an escaping backslash (one of the escape set) before it
onlyEscapedDelimiters(text) ==
    \A i \in 0..(Len(text) - 1) :
        text[i + 1] \in (Escapable \ {PIPE})
            => (i - 1) \in findEscapePositions(text)

\* C4: Escape respect.  When every delimiter of the text is escaped, the
\* fence, inline code, math, link and image stages record no insertion and
\* leave the text as it was.
C4_EscapeRespect ==
    (pc = "tables" /\ DefaultRun /\ onlyEscapedDelimiters(markdown)) =>
        /\ addedChars = <<>>
        /\ fixedMarkdown = markdown

\* C5: Scenario 1.  The unterminated fence ```js / console.log(1) comes back
\* followed by a newline and one closing ```, with exactly three records,
\* the three backticks at the last three positions of the output.
C5_Scenario1 ==
    (Returned /\ DefaultRun /\ markdown = Scenario1) =>
        /\ fixedMarkdown = Scenario1 \o <<NEWLINE>> \o FENCE
        /\ addedChars = <<Ins(<<BACKTICK>>, Len(fixedMarkdown) - 3),
                          Ins(<<BACKTICK>>, Len(fixedMarkdown) - 2),
                          Ins(<<BACKTICK>>, Len(fixedMarkdown) - 1)>>

C5_Witness ==
    /\ Returned /\ DefaultRun /\ markdown = Scenario1
    /\ Len(addedChars) = 3
    /\ addedChars[1].position = 21

\* C6: Scenario 2.  "Use `code here" comes back with the closing backtick
\* at the end of the line, and addedChars is the one record of a backtick
\* at position 14.
C6_Scenario2 ==
    (Returned /\ DefaultRun /\ markdown = Scenario2) =>
        /\ fixedMarkdown = Scenario2 \o <<BACKTICK>>
        /\ addedChars = <<Ins(<<BACKTICK>>, 14)>>

C6_Witness ==
    /\ Returned /\ DefaultRun /\ markdown = Scenario2
    /\ fixedMarkdown # markdown

\* C7: Scenario 3.  "Energy is $E=mc^2" comes back with one $ appended, and
\* addedChars is the one record of a $ at position 17, the end of the line.
C7_Scenario3 ==
    (Returned /\ DefaultRun /\ markdown = Scenario3) =>
        /\ fixedMarkdown = Scenario3 \o <<DOLLAR>>
        /\ addedChars = <<Ins(<<DOLLAR>>, 17)>>

C7_Witness ==
    /\ Returned /\ DefaultRun /\ markdown = Scenario3
    /\ Len(fixedMarkdown) = Len(markdown) + 1

\* C8 as stated: "See [docs](https://example.com" comes back with ) appended
\* and addedChars is the one record of a ) at position 32.
C8_Scenario4AsStated ==
    (Returned /\ DefaultRun /\ markdown = Scenario4) =>
        /\ fixedMarkdown = Scenario4 \o <<RPAREN>>
        /\ addedChars = <<Ins(<<RPAREN>>, 32)>>

\* C8: Scenario 4.  "See [docs](https://example.com" (30 code units) comes
\* back with ) appended, and addedChars is the one record of a ) at
\* position 30, the end of the input.
C8_Scenario4 ==
    (Returned /\ DefaultRun /\ markdown = Scenario4) =>
        /\ fixedMarkdown = Scenario4 \o <<RPAREN>>
        /\ addedChars = <<Ins(<<RPAREN>>, 30)>>
        /\ Len(Scenario4) = 30

C8_Witness ==
    /\ Returned /\ DefaultRun /\ markdown = Scenario4
    /\ Len(addedChars) = 1

\* | --- | --- |
SeparatorOfTwo == <<PIPE, SPACE, DASH, DASH, DASH, SPACE, PIPE, SPACE, DASH, DASH,
                    DASH, SPACE, PIPE>>

\* C9: Scenario 5.  The two rows | A | B | and | 1 | 2 | come back as three
\* lines: the header, the separator | --- | --- |, the data row; the two
\* rows themselves are unchanged.
C9_Scenario5 ==
    (Returned /\ DefaultRun /\ markdown = Scenario5) =>
        LET rows == split(markdown)
        IN  split(fixedMarkdown) = <<rows[1], SeparatorOfTwo, rows[2]>>

C9_Witness ==
    /\ Returned /\ DefaultRun /\ markdown = Scenario5
    /\ Len(split(fixedMarkdown)) = 3

\* C10: Scenario 6.  With links enabled and autoFillEmptyUrl false,
\* "Read [the spec]" comes back with an empty parenthesis pair appended.
C10_Scenario6 ==
    (Returned /\ markdown = Scenario6 /\ options.enabled /\ options.links.enabled
       /\ ~options.links.autoFillEmptyUrl) =>
        fixedMarkdown = Scenario6 \o <<LPAREN, RPAREN>>

\* C11: for the text made of a backslash, a dollar sign and x, the run with
\* the default options returns the text unchanged and records no insertion.
C11_EscapedDollar ==
    (Returned /\ DefaultRun /\ markdown = EscapedDollar) =>
        /\ fixedMarkdown = EscapedDollar
        /\ addedChars = <<>>

\* the run on \$x has passed the math stage with the backslash recorded as
\* an escape position and has returned
C11_Witness ==
    /\ Returned /\ DefaultRun /\ markdown = EscapedDollar
    /\ escapePositions = {0}
    /\ stageInput = EscapedDollar
    /\ fixedMarkdown = EscapedDollar

\* what is left of each splicing loop: the lines from the loop's position on
fenceVariant(st) == Len(st.fixedLines) - (st.i + st.lineOffset)
tableVariant(st) == Len(st.lines) - st.i

\* a value of type string
IsString(v) == DOMAIN v = 1..Len(v) /\ \A k \in DOMAIN v : v[k] \in Nat

\* the places of the run in the order the code reaches them
PcOrder ==
    <<"start", "codeBlocks", "codeBlocks.loop", "inlineCode", "mathFormulas",
      "links", "images", "tables", "tables.loop", "done">>

rank(p) == CHOOSE k \in 1..Len(PcOrder) : PcOrder[k] = p

\* the iteration a splicing loop is about to run leaves less to scan than
\* there is now, the line it may insert included
LoopProgress ==
    /\ (pc = "codeBlocks.loop" /\ fenceLoopRuns(scan)) =>
          LET after == fenceStep(scan, stageEscapes)
          IN  0 <= fenceVariant(after) /\ fenceVariant(after) < fenceVariant(scan)
    /\ (pc = "tables.loop" /\ tableLoopRuns(scan)) =>
          LET after == tableStep(scan)
          IN  0 <= tableVariant(after) /\ tableVariant(after) < tableVariant(scan)

\* a step either stays in its loop or moves on to a later place of the run
MovesOn == pc' # pc => rank(pc') > rank(pc)

\* C12: for every text and every options record the run of fixWithDiff
\* ends: each iteration of the fence loop and of the table loop, which
\* splice into the array they walk, shortens what is left to scan, no step
\* goes back to an earlier stage, and the value returned as fixed is a
\* string.
C12_Terminates ==
    /\ [](pc \in {PcOrder[k] : k \in 1..Len(PcOrder)})
    /\ []LoopProgress
    /\ [](Returned => IsString(fixedMarkdown))
    /\ [][MovesOn]_vars

\* the run has returned after each of the two loops inserted a line
C12_Witness ==
    /\ Returned /\ DefaultRun /\ markdown = SpliceTwice
    /\ Len(split(fixedMarkdown)) = Len(split(markdown)) + 2
    /\ \E k \in 1..Len(addedChars) : addedChars[k].char = <<BACKTICK>>
    /\ \E k \in 1..Len(addedChars) : addedChars[k].char = <<PIPE>>

EmptyDiff == [original |-> <<>>, fixed |-> <<>>, addedChars |-> <<>>]

\* C13: for the empty text the run, whatever the options, throws nothing
\* and returns original "", fixed "" and no insertion.
C13_EmptyText ==
    markdown = <<>> => (~Thrown /\ (Returned => FixDiff = EmptyDiff))

\* the empty text has gone through the stages after the fence stage with
\* the fence stage, which holds the guard for it, switched off
C13_Witness ==
    /\ Returned /\ markdown = <<>>
    /\ options.enabled /\ ~options.codeBlocks.enabled
    /\ options.inlineCode.enabled /\ options.mathFormulas.enabled
    /\ options.links.enabled /\ options.images.enabled /\ options.tables.enabled
    /\ stageInput = <<>> /\ stageResult = NoResult

\* C14: null or undefined as the text is treated as the empty text: the
\* run, whatever the options, throws nothing and returns original "",
\* fixed "" and no insertion.
C14_NullAsEmpty ==
    markdown \in Nullish => (~Thrown /\ (Returned => FixDiff = EmptyDiff))

\* the six stages in the order of fixWithDiff
StageOrder == <<"codeBlocks", "inlineCode", "mathFormulas", "links", "images", "tables">>

\* one stage by its name, as it runs when it is switched on
runStage(name, md, escapes) ==
    CASE name = "codeBlocks" -> fixCodeBlocksWithDiff(md, escapes, DEFAULT_SYNTAX_FIX_OPTIONS)
      [] name = "inlineCode" -> fixInlineCodeWithDiff(md, escapes, DEFAULT_SYNTAX_FIX_OPTIONS)
      [] name = "mathFormulas" -> fixMathFormulasWithDiff(md, escapes, DEFAULT_SYNTAX_FIX_OPTIONS)
      [] name = "links" -> fixLinksWithDiff(md, DEFAULT_SYNTAX_FIX_OPTIONS)
      [] name = "images" -> fixImagesWithDiff(md, DEFAULT_SYNTAX_FIX_OPTIONS)
      [] name = "tables" -> fixTablesWithDiff(md, DEFAULT_SYNTAX_FIX_OPTIONS)

\* the stages named, one after the other, each on the text of the one before
RECURSIVE runOnly(_, _, _, _)
runOnly(names, md, escapes, added) ==
    IF names = <<>> THEN [fixed |-> md, addedChars |-> added]
    ELSE LET r == runStage(Head(names), md, escapes)
         IN  runOnly(Tail(names), r.fixed, escapes, added \o r.addedChars)

switchedOn(name) == options[name].enabled

\* C15: a stage that is switched off is a pass-through.  For every text and
\* every setting of the six stage switches the run throws nothing and
\* returns what the switched-on stages alone return when run in pipeline
\* order; with all six off, or with the global switch off, fixed is the
\* original and there is no insertion.
C15_DisabledPassThrough ==
    markdown \notin Nullish =>
        /\ ~Thrown
        /\ Returned =>
             /\ options.enabled =>
                  [fixed |-> fixedMarkdown, addedChars |-> addedChars]
                    = runOnly(SelectSeq(StageOrder, switchedOn), markdown,
                              findEscapePositions(markdown), <<>>)
             /\ (~options.enabled \/ \A name \in StageNames : ~switchedOn(name)) =>
                  (fixedMarkdown = markdown /\ addedChars = <<>>)

\* a run has returned in which the fence stage, switched off, left an open
\* fence alone, and a later stage, switched on after a stage switched off,
\* made an insertion
C15_Witness ==
    /\ Returned /\ options.enabled
    /\ ~options.codeBlocks.enabled /\ ~options.inlineCode.enabled
    /\ options.links.enabled
    /\ fixCodeBlocksWithDiff(markdown, escapePositions, DEFAULT_SYNTAX_FIX_OPTIONS).addedChars # <<>>
    /\ Len(addedChars) = 1 /\ addedChars[1].char = <<RPAREN>>

\* the places of the run, in pipeline order
PipelineOrder == <<"start">> \o StageOrder \o <<"done">>

place(p) == CHOOSE k \in 1..Len(PipelineOrder) : PipelineOrder[k] = p

\* the first step: the escape set is computed from the original text, or
\* the run returns at once when the global switch is off
StartStep ==
    pc = "start" =>
        IF options.enabled
        THEN pc' = "codeBlocks" /\ escapePositions' = findEscapePositions(markdown)
        ELSE pc' = "done"

\* a step past a stage: on to the next place; a stage that is switched on
\* is called with the current text, and its text and insertions are taken
\* over; a stage that is switched off changes nothing
TextThreading ==
    pc \in StageNames =>
        /\ place(pc') = place(pc) + 1
        /\ escapePositions' = escapePositions
        /\ IF switchedOn(pc)
           THEN /\ stageInput' = fixedMarkdown
                /\ fixedMarkdown' = stageResult'.fixed
                /\ addedChars' = addedChars \o stageResult'.addedChars
           ELSE fixedMarkdown' = fixedMarkdown /\ addedChars' = addedChars

\* a stage that is switched on is called with the escape set of the
\* original text
EscapeThreading ==
    (pc \in StageNames /\ switchedOn(pc)) =>
        stageEscapes' = findEscapePositions(markdown)

\* C16: stage order.  In every run the stages run once each in the order
\* fence, inline code, math, link, image, table; each stage is handed the
\* text returned by the stage before it and the escape set computed once
\* from the original text; addedChars is the concatenation of the stages'
\* insertion lists in that order.
C16_StageOrder == [][StartStep /\ TextThreading /\ EscapeThreading]_vars

\* the part of C16 that does not speak of the escape set
C16_OrderAndText == [][StartStep /\ TextThreading]_vars

\* every insertion of the list lies inside the text
withinText(insertions, text) ==
    \A k \in 1..Len(insertions) :
        /\ 0 <= insertions[k].position
        /\ insertions[k].position + Len(insertions[k].char) <= Len(text)

\* C17: offset bound.  Every insertion a stage records has a position p
\* with 0 <= p and p + length(char) <= length of the text that stage
\* returns, also when the stage makes several insertions.
C17_OffsetBound ==
    (pc # "start" /\ ~Thrown) => withinText(stageResult.addedChars, stageResult.fixed)

\* the positions of the list never go down
nonDecreasing(insertions) ==
    \A k \in 1..(Len(insertions) - 1) :
        insertions[k].position <= insertions[k + 1].position

\* C18: ordering invariant.  The insertion list a stage returns has
\* non-decreasing positions, in the math stage (block and inline
\* insertions) and in the link and image stages (right to left, then
\* reversed) as in the others.
C18_Ordering ==
    (pc # "start" /\ ~Thrown) => nonDecreasing(stageResult.addedChars)

\* the characters a backslash can escape
Significant == {BACKTICK, DOLLAR, LBRACKET, RBRACKET, LPAREN, RPAREN, BANG, PIPE}

\* the length of the run of backslashes that ends just before 0-based
\* index i of the text
runBefore(text, i) ==
    CHOOSE n \in 0..i :
        /\ \A j \in (i - n)..(i - 1) : text[j + 1] = BACKSLASH
        /\ (i - n = 0 \/ text[i - n] # BACKSLASH)

\* the indexes of the backslashes that escape the character after them
activeEscapes(text) ==
    {i \in 0..(Len(text) - 1) :
        /\ text[i + 1] = BACKSLASH
        /\ i + 2 <= Len(text) /\ text[i + 2] \in Significant
        /\ runBefore(text, i) % 2 = 0}

\* C19: findEscapePositions returns exactly the indexes i at which the text
\* has a backslash, followed by one of ` $ [ ] ( ) ! |, with a run of
\* backslashes of even length (0 included) just before i; the text itself
\* is not changed.
C19_EscapeScanner ==
    /\ []((pc # "start" /\ options.enabled) => escapePositions = activeEscapes(markdown))
    /\ [][markdown' = markdown]_vars

\* the scanner has run on three backslashes and a backtick: the third
\* backslash, after a run of two, is the one that escapes
C19_Witness ==
    /\ pc = "codeBlocks"
    /\ markdown = <<BACKSLASH, BACKSLASH, BACKSLASH, BACKTICK>>
    /\ escapePositions = {2}

\* the fence stage has just returned from its line scan
FenceStageRan ==
    /\ pc = "inlineCode" /\ options.enabled /\ options.codeBlocks.enabled
    /\ stageInput # <<>>

\* the closing line is the new last line of the text the scan left
closingFenceAppended(st, result) ==
    /\ result.fixed = join(st.fixedLines) \o <<NEWLINE>> \o FENCE
    /\ Len(result.addedChars) = Len(st.addedChars) + 3

\* a scan of the text by the stage's state machine ends outside a fence
endsOutside(text) == ~fenceScan(text, findEscapePositions(text)).inCodeBlock

\* C20: fence closure at the end.  The fence stage appends a closing ```
\* line as the new last line exactly when its line scan ends inside a
\* fence, and the text it returns, scanned again by the same state
\* machine, ends outside: no fence is left open.
C20_FenceClosure ==
    FenceStageRan =>
        LET st == fenceScan(stageInput, stageEscapes)
        IN  /\ st.inCodeBlock <=> closingFenceAppended(st, stageResult)
            /\ ~st.inCodeBlock => stageResult.fixed = join(st.fixedLines)
            /\ endsOutside(stageResult.fixed)

\* the fence loop is about to scan a line while inside a fence, and the
\* step taken is that iteration
InsideFenceStep ==
    /\ pc = "codeBlocks.loop" /\ pc' = "codeBlocks.loop"
    /\ fenceLoopRuns(scan) /\ scan.inCodeBlock

\* the index of the line the loop is about to scan, and the line
scanIndex(st) == st.i + st.lineOffset
scanLine(st) == st.fixedLines[scanIndex(st) + 1]

\* the iteration inserted one closing fence directly before the line it
\* scanned, and the loop goes on with the line after the scanned one
closedBefore(st, after) ==
    /\ after.fixedLines = splice(st.fixedLines, scanIndex(st), FENCE)
    /\ Len(after.addedChars) = Len(st.addedChars) + 3
    /\ scanIndex(after) = scanIndex(st) + 2

\* the iteration inserted nothing and the loop goes on with the next line
nothingInserted(st, after) ==
    /\ after.fixedLines = st.fixedLines
    /\ after.addedChars = st.addedChars
    /\ scanIndex(after) = scanIndex(st) + 1

\* ``` followed by a language tag that is not blank
fenceWithLanguage(line) ==
    LET t == trim(line)
    IN  /\ startsWith(t, FENCE)
        /\ \E k \in 4..Len(t) : t[k] \notin WhiteSpace

\* C21: fence trigger (a).  Inside a fence, a line that starts with ```
\* followed by a language tag gets one closing ``` line inserted directly
\* before it and becomes the opener of a new fence: the state after it is
\* inside, and the scan goes on with the line that follows it.
C21_FenceWithLanguage ==
    [][(InsideFenceStep /\ fenceWithLanguage(scanLine(scan))) =>
          (closedBefore(scan, scan') /\ scan'.inCodeBlock)]_vars

\* a line of white space only, the empty line included
blank(line) == \A k \in 1..Len(line) : line[k] \in WhiteSpace

\* the line scanned is blank and so is the line just before it
secondBlank(st) ==
    /\ blank(scanLine(st))
    /\ scanIndex(st) >= 1 /\ blank(st.fixedLines[scanIndex(st)])

startsWithWideCharacter(line) ==
    \E k \in 1..Len(line) :
        /\ \A j \in 1..(k - 1) : line[j] \in WhiteSpace
        /\ \/ (line[k] >= 19968 /\ line[k] <= 40869)
           \/ (line[k] >= 65280 /\ line[k] <= 65519)

\* the first character after the leading white space starts a ``` marker
startsWithFence(line) ==
    \E k \in 1..Len(line) :
        /\ \A j \in 1..(k - 1) : line[j] \in WhiteSpace
        /\ matchesAt(line, FENCE, k - 1)

\* C23: fence trigger (c).  Inside a fence, a line whose first character
\* after leading white space is a CJK ideograph or a full-width form gets one
\* closing ``` line inserted directly before it and the state becomes
\* outside; a non-blank line that starts with any other character, a fence
\* marker apart, causes no insertion and leaves the state inside.
C23_WideCharacterLine ==
    [][InsideFenceStep =>
          /\ startsWithWideCharacter(scanLine(scan)) =>
                (closedBefore(scan, scan') /\ ~scan'.inCodeBlock)
          /\ ( /\ ~startsWithWideCharacter(scanLine(scan))
               /\ ~blank(scanLine(scan))
               /\ ~startsWithFence(scanLine(scan)) ) =>
                (nothingInserted(scan, scan') /\ scan'.inCodeBlock)]_vars

\* the loop has closed the fence before a line of a space and an ideograph
C23_Witness ==
    /\ pc = "codeBlocks.loop"
    /\ markdown = join(<<FENCE, <<SPACE, CJK_FIRST>>>>)
    /\ scan.fixedLines = <<FENCE, FENCE, <<SPACE, CJK_FIRST>>>>
    /\ ~scan.inCodeBlock

\* the default run has just come back from the inline-code stage
InlineCodeStageRan == pc = "mathFormulas" /\ DefaultRun

\* index in the text of the first character of line l (lines count from 1)
lineStart(lines, l) == lengthOfLines(lines, l - 1)

\* line l is outside the fences: an even number of fence delimiter lines
\* comes before it and it is no delimiter line itself
outsideFences(lines, l) ==
    /\ ~startsWithFence(lines[l])
    /\ Cardinality({j \in 1..(l - 1) : startsWithFence(lines[j])}) % 2 = 0

\* the backticks of line l that no escaping backslash precedes
strayBackticks(text, lines, l) ==
    {k \in 1..Len(lines[l]) :
        /\ lines[l][k] = BACKTICK
        /\ (lineStart(lines, l) + k - 2) \notin findEscapePositions(text)}

\* C24: inline-code rule.  Every line outside the fences comes back with one
\* backtick appended when it holds exactly one unescaped backtick, and
\* unchanged when it holds any other number of them.
C24_InlineCodeRule ==
    InlineCodeStageRan =>
        LET before == split(stageInput)
            after == split(stageResult.fixed)
        IN  /\ Len(after) = Len(before)
            /\ \A l \in 1..Len(before) :
                   outsideFences(before, l) =>
                       after[l] = IF Cardinality(strayBackticks(stageInput, before, l)) = 1
                                  THEN before[l] \o <<BACKTICK>>
                                  ELSE before[l]

\* the default run has come back from the inline-code stage, which was
\* handed a text the fence stage returned
AfterFenceAndInline ==
    /\ pc = "mathFormulas" /\ DefaultRun
    /\ stageInput = fixCodeBlocksWithDiff(markdown, escapePositions, options).fixed

\* line l is a fence delimiter line or a line inside a fence
fenced(lines, l) == inCodeBlockAfter(lines, l - 1) \/ inCodeBlockAfter(lines, l)

\* C25: the inline-code stage works outside the fences only.  On the text
\* the fence stage returned, the stage's inside-fence flag equals the fence
\* stage's state after every line, and a fence delimiter line or a line inside
\* a fence comes back unchanged.
C25_InlineOutsideFences ==
    AfterFenceAndInline =>
        LET before == split(stageInput)
            after == split(stageResult.fixed)
        IN  \A l \in 1..Len(before) :
                /\ isInCodeBlockAfter(before, l) = inCodeBlockAfter(before, l)
                /\ fenced(before, l) => after[l] = before[l]

\* the default run has just come back from the math stage
MathStageRan == pc = "links" /\ DefaultRun

\* a block delimiter: the line is $$ once trimmed
dollarLine(line) == trim(line) = DOLLARS

dollarLines(lines) == {l \in 1..Len(lines) : dollarLine(lines[l])}

\* the $$ lines toggle; an odd number of them leaves the last block open
openAtEnd(lines) == Cardinality(dollarLines(lines)) % 2 = 1

\* the $$ line that opens the block left open
lastOpener(lines) == CHOOSE l \in dollarLines(lines) : \A j \in dollarLines(lines) : j <= l

\* the blank lines that follow line l
blanksAfter(lines, l) == {j \in (l + 1)..Len(lines) : blank(lines[j])}

\* C26: block math closure.  When the $$ lines of the text handed to the math
\* stage leave a block open, the stage puts a closing $$ line: in the place
\* of the first blank line after the opener, or, when there is none, as a new
\* last line; the $$ lines of the text it returns leave no block open.
C26_BlockMathClosure ==
    (MathStageRan /\ openAtEnd(split(stageInput))) =>
        LET before == split(stageInput)
            after == split(stageResult.fixed)
            blanks == blanksAfter(before, lastOpener(before))
        IN  /\ ~openAtEnd(after)
            /\ IF blanks # {}
               THEN /\ Len(after) = Len(before)
                    /\ after[CHOOSE j \in blanks : \A k \in blanks : j <= k] = DOLLARS
               ELSE /\ Len(after) = Len(before) + 1
                    /\ after[Len(after)] = DOLLARS

\* the dollars of line l that no escaping backslash precedes and that have
\* no dollar next to them
singleDollars(text, lines, l) ==
    {k \in 1..Len(lines[l]) :
        /\ lines[l][k] = DOLLAR
        /\ (lineStart(lines, l) + k - 2) \notin findEscapePositions(text)
        /\ (k > 1 => lines[l][k - 1] # DOLLAR)
        /\ (k < Len(lines[l]) => lines[l][k + 1] # DOLLAR)}

\* C27: inline math counting.  In a text without $$ lines, so that no line is
\* part of a block span, every line comes back with one $ appended when the
\* number of its unescaped dollars outside $$ pairs is odd, and unchanged
\* when it is even; a line whose only dollars are one $$ pair is unchanged.
C27_InlineMathCount ==
    (MathStageRan /\ dollarLines(split(stageInput)) = {}) =>
        LET before == split(stageInput)
            after == split(stageResult.fixed)
        IN  /\ Len(after) = Len(before)
            /\ \A l \in 1..Len(before) :
                   after[l] = IF Cardinality(singleDollars(stageInput, before, l)) % 2 = 1
                              THEN before[l] \o <<DOLLAR>>
                              ELSE before[l]

\* line l belongs to a block span: it is a $$ line, or an odd number of $$
\* lines comes before it
inBlockSpan(lines, l) ==
    \/ dollarLine(lines[l])
    \/ Cardinality({j \in dollarLines(lines) : j < l}) % 2 = 1

\* C28: the inline pass keeps out of the block spans.  In a text whose $$
\* lines pair up, no $$ line and no line between an opening $$ line and its
\* closing $$ line comes back with a $ appended.
C28_BlockSpanUntouched ==
    (MathStageRan /\ ~openAtEnd(split(stageInput))) =>
        LET before == split(stageInput)
            after == split(stageResult.fixed)
        IN  \A l \in 1..Len(before) :
                inBlockSpan(before, l) =>
                    (l <= Len(after) /\ after[l] # before[l] \o <<DOLLAR>>)

\* the line holds [text]( from index i on and no ) after it
danglingAt(line, i) ==
    /\ line[i] = LBRACKET
    /\ \E j \in (i + 2)..(Len(line) - 1) :
          /\ line[j] = RBRACKET /\ line[j + 1] = LPAREN
          /\ \A k \in (j + 2)..Len(line) : line[k] # RPAREN

\* a link left open: its [ does not follow a !
danglingLink(line) ==
    \E i \in 1..Len(line) : danglingAt(line, i) /\ (i > 1 => line[i - 1] # BANG)

\* an image left open: its [ follows a !
danglingImage(line) ==
    \E i \in 2..Len(line) : danglingAt(line, i) /\ line[i - 1] = BANG

\* the default run has just come back from the link stage
LinkStageRan == pc = "images" /\ DefaultRun

\* the default run has just come back from the image stage
ImageStageRan == pc = "tables" /\ DefaultRun

\* every line of the stage's input that satisfies open comes back with one )
\* appended
closesEvery(open(_)) ==
    LET before == split(stageInput)
        after == split(stageResult.fixed)
    IN  /\ Len(after) = Len(before)
        /\ \A l \in 1..Len(before) :
               open(before[l]) => after[l] = before[l] \o <<RPAREN>>

\* C29: dangling link and image closure.  Every line that ends in a link left
\* open comes back from the link stage with one ) right after its URL, and
\* every line that ends in an image left open comes back so from the image
\* stage, however many lines of the text are repaired.
C29_DanglingClosure ==
    /\ LinkStageRan => closesEvery(danglingLink)
    /\ ImageStageRan => closesEvery(danglingImage)

\* the line holds a [ and every [ of it follows a !
onlyImages(line) ==
    /\ includes(line, <<LBRACKET>>)
    /\ \A i \in 1..Len(line) : line[i] = LBRACKET => (i > 1 /\ line[i - 1] = BANG)

\* the line holds one construct with a URL: ]( occurs once
oneConstruct(line) ==
    Cardinality({i \in 0..(Len(line) - 2) : matchesAt(line, <<RBRACKET, LPAREN>>, i)}) = 1

\* C30: link and image separation.  The link stage leaves unchanged a line
\* whose brackets all follow a !; the image stage leaves unchanged a line
\* without ![; and a line with one construct that the link stage has changed
\* comes back unchanged from the image stage.
C30_LinkImageSeparation ==
    LinkStageRan =>
        LET before == split(stageInput)
            between == split(stageResult.fixed)
            after == split(fixImagesWithDiff(stageResult.fixed, options).fixed)
        IN  /\ Len(between) = Len(before) /\ Len(after) = Len(before)
            /\ \A l \in 1..Len(before) :
                   /\ onlyImages(before[l]) => between[l] = before[l]
                   /\ ~includes(between[l], <<BANG, LBRACKET>>) => after[l] = between[l]
                   /\ (oneConstruct(before[l]) /\ between[l] # before[l]) =>
                          after[l] = between[l]

\* the default run has come back from the table stage
TableStageRan == Returned /\ DefaultRun /\ stageEscapes = NotPassed

\* a separator row: nothing but pipes, dashes, colons and white space, with
\* a pipe and a dash
separatorRow(line) ==
    /\ \A k \in 1..Len(line) : line[k] \in {PIPE, DASH, 58} \cup WhiteSpace
    /\ \E k \in 1..Len(line) : line[k] = PIPE
    /\ \E k \in 1..Len(line) : line[k] = DASH

\* a data row: a pipe, more than two characters between the outer white
\* space, and no separator row
dataRow(line) ==
    /\ \E k \in 1..Len(line) : line[k] = PIPE
    /\ Len(trim(line)) > 2
    /\ ~separatorRow(line)

\* C31: table row classification.  The table stage takes a line for a
\* separator row exactly when it holds only pipes, dashes, colons and white
\* space, with a pipe and a dash, and for a data row exactly when it holds a
\* pipe, is longer than two characters and is no separator row; the cell row
\* | a-b | c | is a data row.
C31_RowClassification ==
    TableStageRan =>
        \A l \in 1..Len(split(stageInput)) :
            LET line == split(stageInput)[l]
            IN  /\ isSeparatorLine(line) = separatorRow(line)
                /\ isTableDataLine(line) = dataRow(line)

\* a row of the table: a data row or a separator row
tableRow(line) == dataRow(line) \/ separatorRow(line)

\* the last line of the run of table rows that starts at line 1
RECURSIVE runEnd(_, _)
runEnd(lines, l) ==
    IF l < Len(lines) /\ tableRow(lines[l + 1]) THEN runEnd(lines, l + 1) ELSE l

\* the text starts with a table: a data row on line 1 and a further data row
\* among the table rows that follow it
startsWithTable(lines) ==
    /\ dataRow(lines[1])
    /\ \E l \in 2..runEnd(lines, 1) : dataRow(lines[l])

\* the columns of a header: its cells, the outer pipes set aside
columns(header) ==
    LET t == trim(header)
        from == IF t[1] = PIPE THEN 1 ELSE 0
        to == IF t[Len(t)] = PIPE THEN Len(t) - 1 ELSE Len(t)
    IN  count(slice(t, from, to), PIPE) + 1

\* | --- | --- | ... | with n cells
RECURSIVE separatorOf(_)
separatorOf(n) ==
    IF n = 0 THEN <<PIPE>> ELSE separatorOf(n - 1) \o <<SPACE, DASH, DASH, DASH, SPACE, PIPE>>

\* line 2 is a separator row with as many pipes as the header
separatorFollows(lines) ==
    /\ separatorRow(lines[2])
    /\ count(lines[2], PIPE) = count(lines[1], PIPE)

\* C32: separator synthesis.  For a text that starts with a table, the table
\* stage returns the text unchanged when a separator row with the header's
\* pipe count follows the header; otherwise it returns it with one row
\* | --- | ... |, of as many cells as the header has columns, put directly
\* after the header and every other row of the table as it was.
C32_SeparatorSynthesis ==
    (TableStageRan /\ startsWithTable(split(stageInput))) =>
        LET before == split(stageInput)
            after == split(stageResult.fixed)
        IN  IF separatorFollows(before)
            THEN after = before
            ELSE /\ Len(after) >= runEnd(before, 1) + 1
                 /\ after[1] = before[1]
                 /\ after[2] = separatorOf(columns(before[1]))
                 /\ \A l \in 2..runEnd(before, 1) : after[l + 1] = before[l]

\* no data row has a further data row in its table: between any two data
\* rows there is a line that is no table row
bareHeadersOnly(lines) ==
    \A l, m \in 1..Len(lines) :
        (l < m /\ dataRow(lines[l]) /\ dataRow(lines[m])) =>
            \E k \in (l + 1)..(m - 1) : ~tableRow(lines[k])

\* C33: a bare header-like line is not a table.  When no data row of the
\* text is followed by a further data row before its table ends, the table
\* stage returns the text unchanged and records nothing, also when the
\* single row is the last line.
C33_BareHeader ==
    (TableStageRan /\ bareHeadersOnly(split(stageInput))) =>
        /\ stageResult.fixed = stageInput
        /\ stageResult.addedChars = <<>>

\* the run on two single rows with a plain line between them, the second
\* one the last line, has come back unchanged
C33_Witness ==
    /\ TableStageRan
    /\ markdown = join(<<<<PIPE, 97, PIPE>>, <<97>>, <<97, PIPE, 98>>>>)
    /\ stageInput = markdown
    /\ fixedMarkdown = markdown

\* the default run has just come back from the math, link, image or table
\* stage
LaterStageRan == pc \in {"links", "images", "tables", "done"} /\ DefaultRun

\* the text is one fenced block: an opening ``` line, lines inside the
\* fence, and the closing ``` line last
oneFencedBlock(lines) ==
    /\ Len(lines) >= 3
    /\ \A l \in 1..(Len(lines) - 1) : inCodeBlockAfter(lines, l)
    /\ trim(lines[Len(lines)]) = FENCE

\* C34: later stages respect fences.  When the text handed to the math, link,
\* image or table stage is one fenced block, every line between the opening
\* and the closing ``` line comes back in its place and unchanged: nothing
\* is inserted on it or before it inside the fence.
C34_FencesRespected ==
    (LaterStageRan /\ oneFencedBlock(split(stageInput))) =>
        LET before == split(stageInput)
            after == split(stageResult.fixed)
        IN  /\ Len(after) >= Len(before)
            /\ \A l \in 2..(Len(before) - 1) : after[l] = before[l]

\* a is what is left of b when some of b's characters are deleted
RECURSIVE isSubsequence(_, _)
isSubsequence(a, b) ==
    IF a = <<>> THEN TRUE
    ELSE IF b = <<>> THEN FALSE
    ELSE IF a[1] = b[1] THEN isSubsequence(Tail(a), Tail(b))
    ELSE isSubsequence(a, Tail(b))

\* C35: repair only inserts.  The original text is a subsequence of the
\* text returned, what is left of it when the inserted characters are
\* deleted: no stage deletes or replaces a character, the white space of a
\* blank line that the math stage turns into a closing $$ included.
C35_OnlyInserts == Returned => isSubsequence(markdown, fixedMarkdown)

\* the table stage has synthesized a separator row in this run
separatorSynthesized == TableStageRan /\ stageResult.addedChars # <<>>

\* C36: a synthesized separator is recognized on re-run.  When the table
\* stage has synthesized a separator row, the table stage run on the text it
\* returned takes that row for the table's separator: it returns the text
\* unchanged and records nothing.
C36_SeparatorRecognized ==
    separatorSynthesized =>
        /\ fixTablesWithDiff(stageResult.fixed, options).fixed = stageResult.fixed
        /\ fixTablesWithDiff(stageResult.fixed, options).addedChars = <<>>

\* the fence loop is about to look at a line
FenceLoopAtLine == pc = "codeBlocks.loop" /\ fenceLoopRuns(scan)

\* in the text the character at index p follows an escaping backslash
followsEscape(text, p) == (p - 1) \in findEscapePositions(text)

\* C37: no unescaped delimiter is ignored.  The fence stage takes the ```
\* marker of the line it looks at for escaped only when, in the text it is
\* scanning, the marker follows an escaping backslash; the lines inserted
\* before it make no difference.
C37_EscapedOnlyAfterBackslash ==
    (FenceLoopAtLine /\ isEscapedBacktickAt(scan, escapePositions)) =>
        followsEscape(join(scan.fixedLines), fenceMarkerPos(scan))

\* the characters of the blocks added, in the order of the calls
RECURSIVE addedText(_)
addedText(tr) ==
    IF tr = <<>> THEN <<>>
    ELSE (IF Head(tr).op = "add" THEN Head(tr).content ELSE <<>>) \o addedText(Tail(tr))

\* the characters passed to onChar, in the order of the calls
RECURSIVE renderedText(_)
renderedText(tr) ==
    IF tr = <<>> THEN <<>>
    ELSE (IF Head(tr).op = "onChar" THEN <<Head(tr).char>> ELSE <<>>) \o renderedText(Tail(tr))

isPrefix(a, b) == Len(a) <= Len(b) /\ a = SubSeq(b, 1, Len(a))

\* nothing is left to render and no timer is set
Settled ==
    /\ stream.dataBlockQueue = <<>>
    /\ stream.renderedLength = stream.totalLength
    /\ stream.timer = NoTimer

\* what onChar has received is the beginning of what was added: every
\* character once, the blocks in the order of the calls
InOrderOnce == isPrefix(renderedText(trace), addedText(trace))

\* the timer table holds the timeout of the timer field and no other
OneTimerChain ==
    pendingTimers = IF stream.timer = NoTimer THEN {} ELSE {stream.timer}

\* without a timer everything added has been rendered
NothingLeftBehind ==
    stream.timer = NoTimer =>
        (Settled /\ renderedText(trace) = addedText(trace))

\* C38: StreamController delivery.  When stop is never called and every
\* timeout fires in the end: onChar receives the characters of the blocks
\* once each, in the order added; one timer chain at most is active; a
\* controller without timer has rendered everything; and again and again the
\* queue is empty, renderedLength equals totalLength and the timer is null.
C38_Delivery ==
    /\ [](InOrderOnce /\ OneTimerChain /\ NothingLeftBehind)
    /\ []<>Settled

\* three blocks, one of them empty and one added while a timer was pending,
\* have been rendered to the last character
C38_Witness ==
    /\ Settled
    /\ calls("add") = MaxBlocks
    /\ renderedText(trace) = <<98, 99, 97>>
    /\ \E k \in 1..Len(trace) : trace[k].op = "add" /\ trace[k].content = <<>>
    /\ \E k \in 1..(Len(trace) - 1) : trace[k].op = "onChar" /\ trace[k + 1].op = "add"

\* the calls after the last call of stop (all of them when there is none)
sinceStop(tr) ==
    LET stops == {k \in 1..Len(tr) : tr[k].op = "stop"}
    IN  IF stops = {} THEN tr
        ELSE SubSeq(tr, (CHOOSE k \in stops : \A j \in stops : j <= k) + 1, Len(tr))

\* this step is a call of stop
StopReturns == trace' = Append(trace, [op |-> "stop"])

\* the object as stop leaves it
Reset ==
    /\ stream'.dataBlockQueue = <<>>
    /\ stream'.currentDataBlock = NoBlock
    /\ stream'.currentCharIndex = 0
    /\ stream'.totalLength = 0
    /\ stream'.renderedLength = 0
    /\ stream'.currentInterval = stream.currentInterval
    /\ stream'.isEnd = stream.isEnd

\* what onChar has received since the last stop is the beginning of what
\* was added since, and all of it once no timer is set
FreshOnly ==
    /\ isPrefix(renderedText(sinceStop(trace)), addedText(sinceStop(trace)))
    /\ stream.timer = NoTimer =>
           renderedText(sinceStop(trace)) = addedText(sinceStop(trace))

\* C39: StreamController stop.  A call of stop leaves the queue empty, the
\* current block null, currentCharIndex, totalLength and renderedLength 0,
\* and currentInterval and isEnd as they were; after it onChar receives no
\* character of a block added before it, and the blocks added after it are
\* rendered in order, to the last character once the timer chain has ended.
C39_Stop ==
    /\ [][StopReturns => Reset]_vars
    /\ []FreshOnly

\* stop was called while the second character of a block was waiting for
\* its timer; the block added afterwards has been rendered and nothing else
C39_Witness ==
    /\ Len(trace) = 5
    /\ trace[1] = [op |-> "add", content |-> <<98, 99>>]
    /\ trace[2] = [op |-> "onChar", char |-> 98]
    /\ trace[3] = [op |-> "stop"]
    /\ trace[4] = [op |-> "add", content |-> <<97>>]
    /\ trace[5] = [op |-> "onChar", char |-> 97]
    /\ Settled

====
